---- MODULE Spec2Model ----
(***************************************************************************)
(* Model of the scrape-download-persist pipeline of the blog archive:      *)
(*   - database.js       the SQLite persistence layer (BlogDatabase)        *)
(*   - index.js          the scrape-and-download flow of the CLI            *)
(*   - imageDownloader.js the image cache and downloader                    *)
(*   - blogScraper.js, keyakiBlogScraper.js  the pagination collectors and  *)
(*     the scrape loops                                                     *)
(* Strings that the code joins and splits (GROUP_CONCAT / split(','))  are  *)
(* sequences of tokens, "," being one of the tokens.                        *)
(***************************************************************************)
EXTENDS Integers, Sequences, FiniteSets, TLC

----------------------------------------------------------------------------
(* Bounds of the model *)

MaxPostId == 2
MaxImages == 2
MaxFlowPosts == 1
MaxCalls == 2
MaxSeqCalls == 3
MaxBatchCalls == 2
MaxRetry == 2
MaxBatch == 2
MaxFeedPages == 2
MaxStubs == 2
MaxLimit == 2
MaxSrcLen == 3
MaxDelayCalls == 3

----------------------------------------------------------------------------
(* Values *)

NULL == <<"<null>">>
Comma == ","

ImgA == <<"a">>
ImgB == <<"b">>
ImgC == <<"c">>
ImgD == <<"d">>
ImgAB == <<"a", ",", "b">>

Min(a, b) == IF a < b THEN a ELSE b
Max(a, b) == IF a > b THEN a ELSE b

Prefixes(base) == { SubSeq(base, 1, n) : n \in 0..Min(MaxImages, Len(base)) }

\* post.images as the callers pass it: lists of image URLs
ImageLists == Prefixes(<<ImgA, ImgB, ImgC, ImgD>>) \cup {<<ImgAB>>}

\* localImagePaths as an API caller passes it
PathLists == Prefixes(<<(<<"pA">>), (<<"pB">>), (<<"pC">>), (<<"pD">>)>>)

PostUrls == {"u1", "u2"}

\* the scraped text of a post: u1 is scraped in two versions
PostTexts == { <<"u1", "1">>, <<"u1", "2">>, <<"u2", "1">> }

\* the image URLs the downloader is called with, and that a redirect may name
DlUrls == {ImgA, ImgB}

\* the postId arguments of the downloader (the last segment of the post URL)
DlPostIds == PostUrls

CacheKeys == DlUrls \X DlPostIds

IdleBatch == [pc |-> "idle"]

\* the post objects handed to saveBlogPost
PostInputs ==
  { [url |-> t[1], title |-> <<"t", t[2]>>, date |-> <<"d", t[2]>>,
     content |-> <<"c", t[2]>>, images |-> il] : t \in PostTexts, il \in ImageLists }

----------------------------------------------------------------------------
(* State *)

VARIABLES
  blog_posts,    \* table blog_posts: set of rows [id, url, title, date, content]
  blog_images,   \* table blog_images: set of rows [id, post_id, image_url, local_path]
  seq,           \* sqlite_sequence: last AUTOINCREMENT id of each table
  imageStmts,    \* prepared image INSERT statements whose runs are still queued
  upd,           \* the updateBlogPostImages call in flight
  del,           \* the deleteBlogPost call in flight (removed: image rows it deleted)
  flow,          \* the scrape-and-download flow of index.js
  files,         \* local image files that exist on disk
  saved,         \* id of each post row -> the images array it was saved with
  ret,           \* the call that has just completed, with its result
  calls,         \* the downloadImageOptimized calls made so far, in call order
  downloadQueue, \* imageCache.downloadQueue: url -> the call that downloads it, or 0
  cache,         \* imageCache.cache: cache key -> localPath, or NULL
  cacheFile,     \* image_cache.json on the disk
  process,       \* the Node process: whether it runs, and its handles
  requests,      \* the http requests that have not been answered yet
  partial,       \* the local image files whose body is not completely written
  batch,         \* the downloadImagesOptimized call
  cwdIsBaseDir,  \* whether the process runs in the directory of config.js
  scrape,        \* the scrapeBlogPosts / scrapeKeyakiBlogPosts call
  rate           \* the clock and the rate limit state of scraperUtils.js

dbVars == <<blog_posts, blog_images, seq, imageStmts, upd, del, flow, saved>>
dlVars == <<calls, downloadQueue, cache, cacheFile, process, requests, partial,
            batch, cwdIsBaseDir>>
scVars == <<scrape, rate>>
vars == <<dbVars, files, ret, dlVars, scVars>>

NoRet == [op |-> "none"]

\* the process of index.js after its modules are loaded: db is the handle of
\* `const db = new BlogDatabase()`; dataService is the handle of webServer.js,
\* whose SIGINT handler startServer() installs
StartedProcess ==
  [pc |-> "up", db |-> "open", dataService |-> "open", sigint |-> FALSE]

\* Date.now() when the program starts, in ms, and lastRequestTime = 0 of
\* the module scope of scraperUtils.js
StartTime == 100000
StartedRate == [now |-> StartTime, lastRequestTime |-> 0, calls |-> 0]

\* image_cache.json: whether the file exists, the cache whose JSON text was
\* written to it, and whether the whole text is in it. A file that is not
\* complete holds a proper prefix of the text, which JSON.parse rejects
NoCacheFile ==
  [exists |-> FALSE, complete |-> FALSE, content |-> [k \in CacheKeys |-> NULL]]

IdleUpd == [pc |-> "idle", todo |-> {}]
IdleDel == [pc |-> "idle"]
IdleFlow == [pc |-> "idle"]

\* a call in flight stops being isolated when a statement of another call runs
Disturbed(c) == IF c.pc = "idle" THEN c ELSE [c EXCEPT !.iso = FALSE]

\* the callers await each call before they issue the next one
NoCallInFlight == upd.pc = "idle" /\ del.pc = "idle" /\ flow.pc = "idle"

Quiescent == imageStmts = {} /\ NoCallInFlight

----------------------------------------------------------------------------
(* Helpers on tables *)

RECURSIVE SortedIds(_)
SortedIds(S) ==
  IF S = {} THEN <<>>
  ELSE LET m == CHOOSE x \in S : \A y \in S : x <= y
       IN <<m>> \o SortedIds(S \ {m})

ImageRow(id) == CHOOSE r \in blog_images : r.id = id

\* SELECT * FROM blog_images WHERE post_id = ? ORDER BY id
ImageRowsOf(postId) ==
  LET ids == SortedIds({ r.id : r \in { x \in blog_images : x.post_id = postId } })
  IN [ i \in 1..Len(ids) |-> ImageRow(ids[i]) ]

PostByUrl(url) == { r \in blog_posts : r.url = url }
PostById(id) == { r \in blog_posts : r.id = id }

----------------------------------------------------------------------------
(* Reading: the GROUP_CONCAT columns and their split *)

RECURSIVE JoinComma(_)
JoinComma(vals) ==
  IF vals = <<>> THEN <<>>
  ELSE IF Len(vals) = 1 THEN vals[1]
  ELSE vals[1] \o <<Comma>> \o JoinComma(Tail(vals))

\* GROUP_CONCAT(x): the non-NULL values joined with ",", NULL when there is none
GROUP_CONCAT(vals) ==
  LET nn == SelectSeq(vals, LAMBDA v : v # NULL)
  IN IF nn = <<>> THEN NULL ELSE JoinComma(nn)

\* String.prototype.split(',')
RECURSIVE SplitComma(_)
SplitComma(s) ==
  IF \A i \in 1..Len(s) : s[i] # Comma THEN <<s>>
  ELSE LET k == CHOOSE i \in 1..Len(s) : s[i] = Comma /\ \A j \in 1..(i-1) : s[j] # Comma
       IN <<SubSeq(s, 1, k-1)>> \o SplitComma(SubSeq(s, k+1, Len(s)))

\* row.images ? row.images.split(',') : []
SplitImages(col) ==
  IF col = NULL \/ col = <<>> THEN <<>> ELSE SplitComma(col)

\* row.local_images ? row.local_images.split(',').filter(p => p) : []
SplitLocalImages(col) ==
  IF col = NULL \/ col = <<>> THEN <<>>
  ELSE SelectSeq(SplitComma(col), LAMBDA p : p # <<>>)

\* getBlogPost(postId): the post joined with its images, or NULL
getBlogPost(postId) ==
  IF PostById(postId) = {} THEN NULL
  ELSE LET row == CHOOSE r \in blog_posts : r.id = postId
           imgs == ImageRowsOf(postId)
           n == Len(imgs)
       IN [ id |-> row.id, url |-> row.url, title |-> row.title, date |-> row.date,
            content |-> row.content,
            images |-> SplitImages(GROUP_CONCAT([i \in 1..n |-> imgs[i].image_url])),
            local_images |->
              SplitLocalImages(GROUP_CONCAT([i \in 1..n |-> imgs[i].local_path])) ]

----------------------------------------------------------------------------
(* saveBlogPost *)

\* INSERT OR IGNORE: a row with the same url is kept as it is
InsertOrIgnorePost(p, newId) ==
  IF PostByUrl(p.url) # {} THEN blog_posts
  ELSE blog_posts \cup { [id |-> newId, url |-> p.url, title |-> p.title,
                           date |-> p.date, content |-> p.content] }

\* INSERT OR REPLACE INTO blog_posts ...: the row with the same url is deleted,
\* the new row takes the next AUTOINCREMENT id (this.lastID)
InsertOrReplacePost(p, newId) ==
  { r \in blog_posts : r.url # p.url }
    \cup { [id |-> newId, url |-> p.url, title |-> p.title, date |-> p.date,
            content |-> p.content] }

\* the image INSERTs queued from the last entry of post.images to the first
QueueImageStmtReversed(p, postId) ==
  IF Len(p.images) > 0
  THEN imageStmts \cup
         { [post_id |-> postId,
            rest |-> [i \in 1..Len(p.images) |-> p.images[Len(p.images) - i + 1]]] }
  ELSE imageStmts

\* the statement callback: the image INSERTs are queued on imageStmt and the
\* promise resolves with postId without waiting for them
QueueImageStmt(p, postId) ==
  IF Len(p.images) > 0
  THEN imageStmts \cup { [post_id |-> postId, rest |-> p.images] }
  ELSE imageStmts

SaveRow(p) ==
  /\ seq.posts < MaxPostId
  /\ LET postId == seq.posts + 1
     IN /\ blog_posts' = InsertOrReplacePost(p, postId)
        /\ seq' = [seq EXCEPT !.posts = postId]
        /\ imageStmts' = QueueImageStmt(p, postId)
        /\ saved' = [ id \in { r.id : r \in InsertOrReplacePost(p, postId) } |->
                       IF id = postId THEN p.images ELSE saved[id] ]

saveBlogPost(p) ==
  /\ NoCallInFlight
  /\ SaveRow(p)
  /\ ret' = [op |-> "saveBlogPost", post |-> p, value |-> seq.posts + 1,
             replaced |-> PostByUrl(p.url)]
  /\ UNCHANGED <<blog_images, upd, del, flow, files, dlVars, scVars>>

\* one queued run of an imageStmt: INSERT INTO blog_images (post_id, image_url)
ImageStmtRun(s) ==
  /\ s \in imageStmts
  /\ blog_images' = blog_images \cup
       { [id |-> seq.images + 1, post_id |-> s.post_id, image_url |-> Head(s.rest),
          local_path |-> NULL] }
  /\ seq' = [seq EXCEPT !.images = seq.images + 1]
  /\ imageStmts' = (imageStmts \ {s}) \cup
       (IF Len(s.rest) > 1 THEN { [s EXCEPT !.rest = Tail(s.rest)] } ELSE {})
  /\ ret' = NoRet
  /\ upd' = Disturbed(upd)
  /\ del' = Disturbed(del)
  /\ UNCHANGED <<blog_posts, flow, files, saved, dlVars, scVars>>

----------------------------------------------------------------------------
(* updateBlogPostImages *)

\* the index-th path, and the last path for the rows beyond the list
LocalPathAtOrLast(localImagePaths, index) ==
  IF Len(localImagePaths) = 0 THEN NULL
  ELSE localImagePaths[Min(index, Len(localImagePaths))]

\* localImagePaths[index] || null
LocalPathAt(localImagePaths, index) ==
  IF index <= Len(localImagePaths) /\ localImagePaths[index] # <<>>
  THEN localImagePaths[index]
  ELSE NULL

\* imageRows.map((imageRow, index) => UPDATE blog_images SET local_path = ? WHERE id = ?)
UpdateStatements(imageRows, localImagePaths) ==
  { <<imageRows[i].id, LocalPathAt(localImagePaths, i)>> : i \in 1..Len(imageRows) }

\* the scrape flow goes on after its update call: next post, or the flow is over
FlowAfterUpdate(f) ==
  IF f.k < Len(f.posts) THEN [f EXCEPT !.pc = "update", !.k = f.k + 1] ELSE IdleFlow

FlowRetAfterUpdate(f) ==
  IF f.k < Len(f.posts) THEN NoRet
  ELSE [op |-> "scrape", posts |-> f.posts, downloaded |-> f.downloaded]

\* await Promise.all(updatePromises) has resolved
UpdComplete(u) ==
  /\ upd' = IdleUpd
  /\ IF u.owner = "flow"
     THEN flow' = FlowAfterUpdate(flow) /\ ret' = FlowRetAfterUpdate(flow)
     ELSE /\ flow' = flow
          /\ ret' = [op |-> "updateBlogPostImages", url |-> u.url, paths |-> u.paths,
                     postId |-> u.postId, iso |-> u.iso, error |-> "none"]

\* the call returns without an error
NoError == "none"

\* throw new Error('Post not found'): the promise of the async function rejects
PostNotFound == "Post not found"

\* SELECT id FROM blog_posts WHERE url = ?  (throws 'Post not found' without a row)
UpdGet(postUrl, localImagePaths, owner) ==
  /\ upd.pc = "idle"
  /\ IF PostByUrl(postUrl) = {}
     THEN /\ upd' = IdleUpd
          /\ ret' = [op |-> "updateBlogPostImages", url |-> postUrl,
                     paths |-> localImagePaths, postId |-> 0, iso |-> TRUE,
                     error |-> PostNotFound]
     ELSE /\ upd' = [pc |-> "all", owner |-> owner, url |-> postUrl,
                     paths |-> localImagePaths,
                     postId |-> (CHOOSE r \in blog_posts : r.url = postUrl).id,
                     todo |-> {},
                     iso |-> (imageStmts = {})]
          /\ ret' = NoRet

updateBlogPostImages(postUrl, localImagePaths) ==
  /\ NoCallInFlight
  /\ UpdGet(postUrl, localImagePaths, "api")
  /\ del' = del
  /\ UNCHANGED <<blog_posts, blog_images, seq, imageStmts, flow, files, saved, dlVars, scVars>>

\* SELECT * FROM blog_images WHERE post_id = ? ORDER BY id, then the UPDATEs are issued
UpdSelectAll ==
  /\ upd.pc = "all"
  /\ LET todo == UpdateStatements(ImageRowsOf(upd.postId), upd.paths)
     IN IF todo = {}
        THEN UpdComplete(upd)
        ELSE /\ upd' = [upd EXCEPT !.pc = "run", !.todo = todo]
             /\ ret' = NoRet
             /\ flow' = flow
  /\ UNCHANGED <<blog_posts, blog_images, seq, imageStmts, del, files, saved, dlVars, scVars>>

\* one UPDATE blog_images SET local_path = ? WHERE id = ?
UpdRun(t) ==
  /\ upd.pc = "run"
  /\ t \in upd.todo
  /\ blog_images' =
       { IF r.id = t[1] THEN [r EXCEPT !.local_path = t[2]] ELSE r : r \in blog_images }
  /\ IF upd.todo = {t}
     THEN UpdComplete(upd)
     ELSE /\ upd' = [upd EXCEPT !.todo = upd.todo \ {t}]
          /\ ret' = NoRet
          /\ flow' = flow
  /\ UNCHANGED <<blog_posts, seq, imageStmts, del, files, saved, dlVars, scVars>>

----------------------------------------------------------------------------
(* deleteBlogPost *)

\* the local_path values of the rows SELECTed for the post
LocalPathsOf(postId) ==
  { r.local_path : r \in { x \in blog_images : x.post_id = postId /\ x.local_path # NULL } }

\* the forEach over imageRows without the try/catch: an unlinkSync that
\* throws ends the callback
UnlinkFilesNoCatch(paths, failing) ==
  [unlinked |-> paths \ failing, thrown |-> failing # {}]

\* the forEach over imageRows: fs.unlinkSync of every file that exists; an
\* unlink that throws (the files in failing) is caught and logged
UnlinkFiles(paths, failing) ==
  [unlinked |-> paths \ failing, thrown |-> FALSE]

\* SELECT local_path FROM blog_images WHERE post_id = ?, and in its callback the
\* existing files are unlinked; then the DELETE of the image rows is issued
deleteBlogPost(postId) ==
  /\ NoCallInFlight
  /\ \E failing \in SUBSET (LocalPathsOf(postId) \cap files) :
       LET u == UnlinkFiles(LocalPathsOf(postId) \cap files, failing)
           d == [pc |-> "images", id |-> postId, existed |-> PostById(postId) # {},
                 removed |-> 0, iso |-> (imageStmts = {}), failed |-> failing]
       IN /\ files' = files \ u.unlinked
          /\ IF u.thrown
             THEN /\ del' = IdleDel
                  /\ ret' = [op |-> "deleteBlogPost", id |-> postId, value |-> 0,
                             existed |-> d.existed, removed |-> 0, iso |-> d.iso,
                             failed |-> failing, resolved |-> FALSE]
             ELSE /\ del' = d
                  /\ ret' = NoRet
  /\ UNCHANGED <<blog_posts, blog_images, seq, imageStmts, upd, flow, saved, dlVars, scVars>>

\* DELETE FROM blog_images WHERE post_id = ?
DelImages ==
  /\ del.pc = "images"
  /\ blog_images' = { r \in blog_images : r.post_id # del.id }
  /\ del' = [del EXCEPT !.pc = "post",
                        !.removed = Cardinality(blog_images) - Cardinality(blog_images')]
  /\ ret' = NoRet
  /\ UNCHANGED <<blog_posts, seq, imageStmts, upd, flow, files, saved, dlVars, scVars>>

\* DELETE FROM blog_posts WHERE id = ?, resolve(this.changes)
DelPost ==
  /\ del.pc = "post"
  /\ blog_posts' = { r \in blog_posts : r.id # del.id }
  /\ ret' = [op |-> "deleteBlogPost", id |-> del.id,
             value |-> Cardinality(PostById(del.id)),
             existed |-> del.existed, removed |-> del.removed, iso |-> del.iso,
             failed |-> del.failed, resolved |-> TRUE]
  /\ saved' = [ id \in DOMAIN saved \ {del.id} |-> saved[id] ]
  /\ del' = IdleDel
  /\ UNCHANGED <<blog_images, seq, imageStmts, upd, flow, files, dlVars, scVars>>

----------------------------------------------------------------------------
(* The scrape-and-download flow of index.js (scrapeMemberBlog,               *)
(* scrapeKeyakiMemberBlog): saveBlogPosts, downloadImagesOptimized per post, *)
(* updateBlogPostImages per post                                             *)

\* imageCache.getUrlHash(url).substring(0, 8)
UrlHash(url) ==
  CASE url = ImgA -> "h_a"
    [] url = ImgB -> "h_b"
    [] url = ImgC -> "h_c"
    [] url = ImgD -> "h_d"
    [] OTHER -> "h_ab"

\* path.join(IMAGES_DIR_RELATIVE, folderName, `post_${cleanPostId}_${urlHash}${extension}`)
RelativePath(imageUrl, folderName, postId) ==
  <<"images/", folderName, "/post_", postId, "_", UrlHash(imageUrl)>>

\* post.url.split("/").pop()
PostIdOfUrl(url) == url

\* what downloadImagesOptimized returns when the downloads of the positions
\* in ok succeed and the others fail: one entry per input URL
DownloadResults(imageUrls, ok, folderName, postId) ==
  [ i \in 1..Len(imageUrls) |->
      IF i \in ok
      THEN [url |-> imageUrls[i],
            localPath |-> RelativePath(imageUrls[i], folderName, postId),
            success |-> TRUE]
      ELSE [url |-> imageUrls[i], localPath |-> NULL, success |-> FALSE] ]

\* downloaded.filter((d) => d.success).map((d) => d.localPath)
LocalImagePaths(downloaded) ==
  LET good == SelectSeq(downloaded, LAMBDA d : d.success)
  IN [ i \in 1..Len(good) |-> good[i].localPath ]

FlowPostLists ==
  UNION { { ps \in [1..n -> PostInputs] :
              \A i, j \in 1..n : ps[i].url = ps[j].url => i = j } : n \in 1..MaxFlowPosts }

\* posts = await scrapeBlogPosts(...); if (posts.length > 0) db.saveBlogPosts(posts)
FlowStart(posts) ==
  /\ flow.pc = "idle"
  /\ Quiescent
  /\ seq.posts + Len(posts) <= MaxPostId
  /\ flow' = [pc |-> "save", posts |-> posts, todo |-> 1..Len(posts), k |-> 1,
              downloaded |-> <<>>]
  /\ ret' = NoRet
  /\ UNCHANGED <<blog_posts, blog_images, seq, imageStmts, upd, del, files, saved, dlVars, scVars>>

\* saveBlogPosts: Promise.all over saveBlogPost, one INSERT OR REPLACE at a time
FlowSave(i) ==
  /\ flow.pc = "save"
  /\ i \in flow.todo
  /\ SaveRow(flow.posts[i])
  /\ flow' = IF flow.todo = {i}
             THEN [flow EXCEPT !.pc = "download", !.todo = {}]
             ELSE [flow EXCEPT !.todo = flow.todo \ {i}]
  /\ ret' = NoRet
  /\ UNCHANGED <<blog_images, upd, del, files, dlVars, scVars>>

\* for (const post of posts): downloadImagesOptimized(post.images, ...) when the
\* post has images; the downloads of the positions in ok succeed
FlowDownload(ok) ==
  /\ flow.pc = "download"
  /\ LET post == flow.posts[flow.k]
         res == DownloadResults(post.images, ok, "sakurazaka46", PostIdOfUrl(post.url))
     IN /\ ok \subseteq 1..Len(post.images)
        /\ files' = files \cup { res[i].localPath : i \in ok }
        /\ flow' = [flow EXCEPT !.downloaded = Append(flow.downloaded, res),
                                !.k = IF flow.k < Len(flow.posts) THEN flow.k + 1 ELSE 1,
                                !.pc = IF flow.k < Len(flow.posts) THEN "download"
                                       ELSE "update"]
  /\ ret' = NoRet
  /\ UNCHANGED <<blog_posts, blog_images, seq, imageStmts, upd, del, saved, dlVars, scVars>>

\* for (const post of posts): if (post.localImages && post.localImages.length > 0)
\*   await db.updateBlogPostImages(post.url, post.localImages)
FlowUpdate ==
  /\ flow.pc = "update"
  /\ LET post == flow.posts[flow.k]
         localImages == LocalImagePaths(flow.downloaded[flow.k])
     IN IF Len(localImages) > 0
        THEN /\ UpdGet(post.url, localImages, "flow")
             /\ flow' = [flow EXCEPT !.pc = "updating"]
        ELSE /\ flow' = FlowAfterUpdate(flow)
             /\ ret' = FlowRetAfterUpdate(flow)
             /\ upd' = upd
  /\ UNCHANGED <<blog_posts, blog_images, seq, imageStmts, del, files, saved, dlVars, scVars>>

----------------------------------------------------------------------------
(* The persistence specification *)

Init ==
  /\ blog_posts = {}
  /\ blog_images = {}
  /\ seq = [posts |-> 0, images |-> 0]
  /\ imageStmts = {}
  /\ upd = IdleUpd
  /\ del = IdleDel
  /\ flow = IdleFlow
  /\ files = {}
  /\ saved = <<>>
  /\ ret = NoRet
  /\ calls = <<>>
  /\ downloadQueue = [u \in DlUrls |-> 0]
  /\ cache = [k \in CacheKeys |-> NULL]
  /\ cacheFile = NoCacheFile
  /\ process = StartedProcess
  /\ requests = {}
  /\ partial = {}
  /\ batch = IdleBatch
  /\ cwdIsBaseDir \in BOOLEAN
  /\ scrape = [pc |-> "idle"]
  /\ rate = StartedRate

\* the persistence API called by one caller at a time
Next ==
  \/ \E p \in PostInputs : saveBlogPost(p)
  \/ \E s \in imageStmts : ImageStmtRun(s)
  \/ \E u \in PostUrls, paths \in PathLists : updateBlogPostImages(u, paths)
  \/ UpdSelectAll
  \/ \E t \in upd.todo : UpdRun(t)
  \/ \E id \in 1..MaxPostId : deleteBlogPost(id)
  \/ DelImages
  \/ DelPost

Spec == Init /\ [][Next]_vars

\* sequences of saveBlogPost calls
NextSave ==
  \/ \E p \in PostInputs : saveBlogPost(p)
  \/ \E s \in imageStmts : ImageStmtRun(s)

SpecSave == Init /\ [][NextSave]_vars

\* saveBlogPost and updateBlogPostImages calls
NextUpdate ==
  \/ \E p \in PostInputs : saveBlogPost(p)
  \/ \E s \in imageStmts : ImageStmtRun(s)
  \/ \E u \in PostUrls, paths \in PathLists : updateBlogPostImages(u, paths)
  \/ UpdSelectAll
  \/ \E t \in upd.todo : UpdRun(t)

SpecUpdate == Init /\ [][NextUpdate]_vars

\* runs of the scrape-and-download flow
NextFlow ==
  \/ \E posts \in FlowPostLists : FlowStart(posts)
  \/ \E i \in 1..MaxFlowPosts : FlowSave(i)
  \/ \E s \in imageStmts : ImageStmtRun(s)
  \/ \E ok \in SUBSET (1..MaxImages) : FlowDownload(ok)
  \/ FlowUpdate
  \/ UpdSelectAll
  \/ \E t \in upd.todo : UpdRun(t)

SpecFlow == Init /\ [][NextFlow]_vars

\* the scrape-and-download flow, and deleteBlogPost calls between its runs
NextDelete ==
  \/ \E posts \in FlowPostLists : FlowStart(posts)
  \/ \E i \in 1..MaxFlowPosts : FlowSave(i)
  \/ \E s \in imageStmts : ImageStmtRun(s)
  \/ \E ok \in SUBSET (1..MaxImages) : FlowDownload(ok)
  \/ FlowUpdate
  \/ UpdSelectAll
  \/ \E t \in upd.todo : UpdRun(t)
  \/ \E id \in 1..MaxPostId : deleteBlogPost(id)
  \/ DelImages
  \/ DelPost

SpecDelete == Init /\ [][NextDelete]_vars

----------------------------------------------------------------------------
(* The image downloader of imageDownloader.js: downloadImageOptimized        *)

\* retryCount = 3 in the signature of downloadImageOptimized
DefaultRetryCount == 3

\* site = 'sakurazaka46' in the signature of downloadImageOptimized
DefaultSite == "sakurazaka46"

\* the retryCount arguments of the calls made from outside
RetryCounts == 1..MaxRetry

\* the Location headers a 301/302 answer may carry
Locations == DlUrls

\* the Error objects the download promise is rejected with
ErrStatus == <<"error", "status">>
ErrTimeout == <<"error", "timeout">>
ErrCode(code) == <<"error", code>>

\* err.code of the 'error' event of a request
ErrorCodes == {"ENOTFOUND", "ECONNRESET"}

\* imageCache.saveCache(): fs.writeFileSync(CACHE_FILE, JSON.stringify(cache))
\* opens the file with flag 'w', which truncates it, and then writes the
\* text; interrupted: the process ends before the whole text is written
saveCache(c, interrupted) ==
  [exists |-> TRUE, complete |-> ~interrupted, content |-> c]

\* the state the downloader's functions read and write
Downloader ==
  [calls |-> calls, queue |-> downloadQueue, cache |-> cache, files |-> files,
   requests |-> requests, cacheFile |-> cacheFile, partial |-> partial]

\* filepath and relativePath of attemptDownload: the folder is named after the
\* site argument, the file after the postId and the hash of the image URL
FilePath(c) == RelativePath(c.url, c.site, c.postId)

\* imageCache.getCacheKey(url, memberId, postId)
getCacheKey(url, postId) == <<url, postId>>

\* imageCache.exists: the entry's localPath is the relative path, which
\* fs.existsSync resolves against the working directory of the process
CacheExists(D, url, postId) ==
  /\ D.cache[getCacheKey(url, postId)] # NULL
  /\ cwdIsBaseDir
  /\ D.cache[getCacheKey(url, postId)] \in D.files

\* imageCache.set(imageUrl, relativePath, ..., memberId, postId)
CacheSet(D, url, postId, localPath) ==
  LET c == [D.cache EXCEPT ![getCacheKey(url, postId)] = localPath]
  IN [D EXCEPT !.cache = c, !.cacheFile = saveCache(c, FALSE)]

\* the calls whose promise settles when the calls in S settle: the calls that
\* await the downloadPromise of one of them, and the call whose resolve and
\* reject a redirected call was chained to with .then(resolve).catch(reject)
RECURSIVE SettledWith(_, _)
SettledWith(S, cs) ==
  LET T == S \cup { w \in DOMAIN cs : /\ cs[w].state = "pending"
                                      /\ cs[w].mode = "waiter"
                                      /\ cs[w].waitOn \in S }
             \cup { p \in DOMAIN cs : /\ cs[p].state = "pending"
                                      /\ \E s \in S : cs[s].parent = p }
  IN IF T = S THEN S ELSE SettledWith(T, cs)

\* resolve(res) or reject(res) of the call's promise, and what runs when it
\* settles: the finally of the call deletes its URL from the downloadQueue
Settle(D, id, st, res) ==
  IF D.calls[id].state # "pending" THEN D
  ELSE LET S == SettledWith({id}, D.calls)
       IN [D EXCEPT
             !.calls = [k \in DOMAIN D.calls |->
                          IF k \in S
                          THEN [D.calls[k] EXCEPT !.state = st, !.result = res]
                          ELSE D.calls[k]],
             !.queue = [u \in DlUrls |->
                          IF \E s \in S : D.calls[s].mode = "owner" /\ D.calls[s].url = u
                          THEN 0 ELSE D.queue[u]]]

\* a name for a new request of the call id: the first number that none of its
\* requests in flight has
RequestOf(D, id) ==
  [call |-> id,
   n |-> CHOOSE i \in 1..(Cardinality(D.requests) + 1) :
           /\ [call |-> id, n |-> i] \notin D.requests
           /\ \A j \in 1..(i - 1) : [call |-> id, n |-> j] \in D.requests]

\* attemptDownload: counts the attempt, resolves at once when the file is
\* there, else creates the file and sends the request; the file is taken to
\* be there as soon as fs.createWriteStream has been called
attemptDownload(D, id) ==
  LET c == D.calls[id]
      filepath == FilePath(c)
      D1 == [D EXCEPT !.calls[id].attempts = c.attempts + 1]
  IN IF filepath \in D.files
     THEN Settle([CacheSet(D1, c.url, c.postId, filepath)
                    EXCEPT !.calls[id].hist = "other"],
                 id, "resolved", filepath)
     ELSE [D1 EXCEPT !.files = D.files \cup {filepath},
                     !.partial = D.partial \cup {filepath},
                     !.requests = D.requests \cup {RequestOf(D, id)},
                     !.calls[id].fetched = TRUE]

\* the earlier calls with the same url and postId that resolved and whose file
\* is there when this call is made
PriorResults(D, url, postId) ==
  { D.calls[k].result : k \in { j \in DOMAIN D.calls :
                                  /\ D.calls[j].url = url
                                  /\ D.calls[j].postId = postId
                                  /\ D.calls[j].state = "resolved"
                                  /\ D.calls[j].result \in D.files } }

NewCall(D, url, postId, site, retryCount, parent, mode, waitOn) ==
  [url |-> url, postId |-> postId, site |-> site, retryCount |-> retryCount,
   parent |-> parent, mode |-> mode, waitOn |-> waitOn,
   state |-> "pending", result |-> NULL, attempts |-> 0, timers |-> 0,
   fetched |-> FALSE, hist |-> "none", nf |-> 0,
   prior |-> PriorResults(D, url, postId)]

\* imageCache.downloadQueue.has(imageUrl)
InQueue(D, imageUrl) == D.queue[imageUrl] # 0

\* downloadImageOptimized up to its first await: the cache check, the
\* in-flight check, else the download promise with its first attempt and
\* downloadQueue.set
downloadImageOptimized(D, imageUrl, postId, site, retryCount, parent) ==
  LET id == Len(D.calls) + 1
      new(mode, waitOn) ==
        [D EXCEPT !.calls = Append(D.calls,
            NewCall(D, imageUrl, postId, site, retryCount, parent, mode, waitOn))]
  IN IF CacheExists(D, imageUrl, postId)
     THEN Settle(new("cached", 0), id, "resolved",
                 D.cache[getCacheKey(imageUrl, postId)])
     ELSE IF InQueue(D, imageUrl)
     THEN new("waiter", D.queue[imageUrl])
     ELSE LET D1 == attemptDownload(new("owner", 0), id)
          IN IF D1.calls[id].state = "pending"
             THEN [D1 EXCEPT !.queue[imageUrl] = id]
             ELSE D1

\* file.close(); if (fs.existsSync(filepath)) fs.unlinkSync(filepath), at the
\* end of the request r
CloseAndUnlink(D, r) ==
  [D EXCEPT !.files = D.files \ {FilePath(D.calls[r.call])},
            !.partial = D.partial \ {FilePath(D.calls[r.call])},
            !.requests = D.requests \ {r}]

\* attempts < retryCount, with the comparison that allows one attempt more
MayRetryOnceMore(attempts, retryCount) == attempts <= retryCount

MayRetry(attempts, retryCount) == attempts < retryCount

\* setTimeout(attemptDownload, 1000 * attempts) when retry holds, else reject(err)
RetryOrReject(D, id, retry, err) ==
  IF retry
  THEN [D EXCEPT !.calls[id].timers = D.calls[id].timers + 1]
  ELSE Settle(D, id, "rejected", err)

\* the positions of the current window of downloadImagesOptimized whose call
\* settled in this step, appended to the order of completion
Observed(b, settled) ==
  IF b.pc = "window"
  THEN [b EXCEPT !.order =
          b.order \o SortedIds({ k \in 1..Len(b.ids) : b.ids[k] \in settled })]
  ELSE b

\* the calls that D1 settled
SettledIn(D1) ==
  { k \in DOMAIN D1.calls : /\ D1.calls[k].state # "pending"
                            /\ (k > Len(calls) \/ calls[k].state = "pending") }

\* a call that settled before this step and has no timer and no request left
\* in D1: no handler of it will run any more
Finished(D1, k) ==
  /\ k <= Len(calls)
  /\ calls[k].state # "pending"
  /\ D1.calls[k].timers = 0
  /\ \A r \in D1.requests : r.call # k

\* what remains of a finished call: what imageUrl and postId it was made
\* with and what its caller got; its closure is garbage
Collected(c) ==
  [url |-> c.url, postId |-> c.postId, site |-> DefaultSite, retryCount |-> 1,
   parent |-> 0, mode |-> "finished", waitOn |-> 0,
   state |-> c.state, result |-> c.result, attempts |-> 0, timers |-> 0,
   fetched |-> FALSE, hist |-> "none", nf |-> 0, prior |-> {}]

\* the step of the event loop that leaves the downloader in D1
Commit(D1) ==
  /\ calls' = [k \in DOMAIN D1.calls |->
                 IF Finished(D1, k) THEN Collected(D1.calls[k]) ELSE D1.calls[k]]
  /\ downloadQueue' = D1.queue
  /\ cache' = D1.cache
  /\ cacheFile' = D1.cacheFile
  /\ files' = D1.files
  /\ requests' = D1.requests
  /\ partial' = D1.partial
  /\ ret' = IF SettledIn(D1) = {} THEN NoRet
            ELSE [op |-> "settled", ids |-> SettledIn(D1)]
  /\ UNCHANGED <<dbVars, process, cwdIsBaseDir, scVars>>

\* the URLs of downloadImagesOptimized whose call has not been made yet
Unlaunched(b) ==
  IF b.pc = "window" THEN Len(b.urls) - (b.i + Len(b.ids)) ELSE 0

\* the image URLs are interchangeable and so are the posts: the first call
\* is made for the first of each
FirstCall(imageUrl, postId) ==
  calls = <<>> => imageUrl = ImgA /\ postId = "u1"

\* a call of downloadImageOptimized from outside
Call(imageUrl, postId, retryCount, maxCalls) ==
  /\ Len(calls) < maxCalls
  /\ FirstCall(imageUrl, postId)
  /\ Commit(downloadImageOptimized(Downloader, imageUrl, postId, DefaultSite,
                                   retryCount, 0))
  /\ batch' = batch

\* the response callback, response.statusCode neither 200 nor 301/302
OnStatus(r) ==
  /\ r \in requests
  /\ LET id == r.call
         D1 == [CloseAndUnlink(Downloader, r) EXCEPT
                  !.calls[id].hist = IF @ = "other" THEN @ ELSE "status"]
         D2 == RetryOrReject(D1, id,
                 MayRetry(calls[id].attempts, calls[id].retryCount), ErrStatus)
     IN /\ Commit(D2)
        /\ batch' = Observed(batch, SettledIn(D2))

\* the site argument of the call made for a redirect: the call passes
\* retryCount as its fifth argument
SiteOfRedirect(retryCount) == ToString(retryCount)

\* the response callback, response.statusCode 301 or 302:
\* downloadImageOptimized(response.headers.location, memberId, postId,
\*   memberName, retryCount).then(resolve).catch(reject)
OnRedirect(r, location, maxCalls) ==
  /\ r \in requests
  /\ Len(calls) + Unlaunched(batch) < maxCalls
  /\ LET id == r.call
         D1 == [CloseAndUnlink(Downloader, r) EXCEPT !.calls[id].hist = "other"]
         D2 == downloadImageOptimized(D1, location, calls[id].postId,
                 SiteOfRedirect(calls[id].retryCount), DefaultRetryCount, id)
     IN /\ Commit(D2)
        /\ batch' = Observed(batch, SettledIn(D2))

\* the response callback with statusCode 200, response.pipe(file) and the
\* 'finish' handler of the file: imageCache.set and resolve(relativePath);
\* fs.statSync needs the file to be there
OnFinish(r) ==
  /\ r \in requests
  /\ FilePath(calls[r.call]) \in files
  /\ LET id == r.call
         c == calls[id]
         D1 == [Downloader EXCEPT !.requests = requests \ {r},
                                  !.partial = partial \ {FilePath(c)},
                                  !.calls[id].hist = "other"]
         D2 == Settle(CacheSet(D1, c.url, c.postId, FilePath(c)), id,
                      "resolved", FilePath(c))
     IN /\ Commit(D2)
        /\ batch' = Observed(batch, SettledIn(D2))

\* the 'error' handler of the request
ErrorHandler(D, r, code) ==
  LET id == r.call
      c == D.calls[id]
      D1 == [CloseAndUnlink(D, r) EXCEPT
               !.calls[id].hist = "other",
               !.calls[id].nf = IF code = "ENOTFOUND" /\ c.nf = 0
                                THEN c.attempts ELSE c.nf]
  IN RetryOrReject(D1, id,
       MayRetry(c.attempts, c.retryCount) /\ code # "ENOTFOUND", ErrCode(code))

\* the 'timeout' handler of the request
TimeoutHandler(D, r) ==
  LET id == r.call
      D1 == [CloseAndUnlink(D, r) EXCEPT !.calls[id].hist = "other"]
  IN RetryOrReject(D1, id,
       MayRetry(D.calls[id].attempts, D.calls[id].retryCount), ErrTimeout)

\* the 'timeout' event: the handler calls request.destroy(), and a request
\* destroyed before its response emits 'error' (socket hang up, ECONNRESET),
\* so that the 'error' handler runs after the 'timeout' handler; a request
\* that has its response emits no 'error'
OnTimeout(r, responded) ==
  /\ r \in requests
  /\ LET D1 == TimeoutHandler(Downloader, r)
         D2 == IF responded THEN D1 ELSE ErrorHandler(D1, r, "ECONNRESET")
     IN /\ Commit(D2)
        /\ batch' = Observed(batch, SettledIn(D2))

\* the 'error' event of the request
OnError(r, code) ==
  /\ r \in requests
  /\ LET D1 == ErrorHandler(Downloader, r, code)
     IN /\ Commit(D1)
        /\ batch' = Observed(batch, SettledIn(D1))

\* setTimeout(attemptDownload, 1000 * attempts) fires
RetryTimer(id) ==
  /\ id \in DOMAIN calls
  /\ calls[id].timers > 0
  /\ LET D1 == [Downloader EXCEPT !.calls[id].timers = @ - 1]
         D2 == attemptDownload(D1, id)
     IN /\ Commit(D2)
        /\ batch' = Observed(batch, SettledIn(D2))

\* a downloaded file is removed from the images directory while no request
\* writes to it (deleteBlogPost unlinks the files of a post)
FileRemoved(path) ==
  /\ path \in files
  /\ \A r \in requests : FilePath(calls[r.call]) # path
  /\ files' = files \ {path}
  /\ partial' = partial \ {path}
  /\ ret' = NoRet
  /\ UNCHANGED <<dbVars, calls, downloadQueue, cache, cacheFile, process, requests,
                 batch, cwdIsBaseDir, scVars>>

----------------------------------------------------------------------------
(* downloadImagesOptimized of imageDownloader.js *)

\* maxConcurrent = 3 in the signature of downloadImagesOptimized
DefaultMaxConcurrent == 3

\* the maxConcurrent arguments
MaxConcurrents == {1, DefaultMaxConcurrent}

\* the imageUrls arguments
UrlLists == UNION { [1..n -> DlUrls] : n \in 1..MaxBatch }

\* batch.map(async (imageUrl) => downloadImageOptimized(imageUrl, memberId,
\* postId, memberName, site)): the calls of a window, made one after the other
RECURSIVE Launch(_, _, _)
Launch(D, urls, postId) ==
  IF urls = <<>> THEN D
  ELSE Launch(downloadImageOptimized(D, Head(urls), postId, DefaultSite,
                                     DefaultRetryCount, 0),
              Tail(urls), postId)

\* imageUrls.slice(i, Math.min(i + maxConcurrent, total))
Window(imageUrls, i, maxConcurrent) ==
  SubSeq(imageUrls, i + 1, Min(i + maxConcurrent, Len(imageUrls)))

\* the window that starts at i, its calls made from the downloader state D
WindowLaunched(D, b, i) ==
  LET w == Window(b.urls, i, b.maxConcurrent)
      D1 == Launch(D, w, b.postId)
      ids == [k \in 1..Len(w) |-> Len(D.calls) + k]
  IN [D |-> D1,
      b |-> [b EXCEPT !.pc = "window", !.i = i, !.ids = ids,
                      !.allIds = b.allIds \o ids,
                      !.order = SortedIds({ k \in 1..Len(w) :
                                  D1.calls[ids[k]].state # "pending" })]]

\* what the async callback of batch.map returns for the call c of imageUrl
BatchResult(imageUrl, c) ==
  IF c.state = "resolved"
  THEN [url |-> imageUrl, localPath |-> c.result, success |-> TRUE, error |-> NULL]
  ELSE [url |-> imageUrl, localPath |-> NULL, success |-> FALSE, error |-> c.result]

\* the async callback of batch.map without its try/catch: a failed download
\* rejects the callback's promise
BatchCallbackNoCatch(imageUrl, c) ==
  IF c.state = "resolved"
  THEN [state |-> "fulfilled", value |-> BatchResult(imageUrl, c)]
  ELSE [state |-> "rejected", value |-> c.result]

\* the promise of the async callback of batch.map: the catch block returns
\* the failure record, so the promise is fulfilled either way
BatchCallback(imageUrl, c) ==
  [state |-> "fulfilled", value |-> BatchResult(imageUrl, c)]

\* the order of the results of a window: the order in which the calls settled
CompletionOrder(b) == b.order

\* the order of the results of a window: Promise.all keeps the order of
\* batchPromises
PromiseAllOrder(b) == [k \in 1..Len(b.ids) |-> k]

\* batchResults = await Promise.all(batchPromises)
BatchResults(b) ==
  [k \in 1..Len(b.ids) |->
     BatchCallback(b.urls[b.i + PromiseAllOrder(b)[k]],
                   calls[b.ids[PromiseAllOrder(b)[k]]]).value]

\* Promise.all(batchPromises) rejects when one of the callbacks rejects
BatchRejects(b) ==
  \E k \in 1..Len(b.ids) :
    BatchCallback(b.urls[b.i + k], calls[b.ids[k]]).state = "rejected"

\* downloadImagesOptimized up to its first await
BatchStart(imageUrls, postId, maxConcurrent) ==
  /\ batch.pc \in {"idle", "done"}
  /\ Len(calls) + Len(imageUrls) <= MaxBatchCalls
  /\ FirstCall(Head(imageUrls), postId)
  /\ LET b0 == [pc |-> "window", urls |-> imageUrls, postId |-> postId,
                maxConcurrent |-> maxConcurrent, i |-> 0, ids |-> <<>>,
                allIds |-> <<>>, order |-> <<>>, results |-> <<>>]
         L == WindowLaunched(Downloader, b0, 0)
     IN /\ Commit(L.D)
        /\ batch' = L.b

\* await Promise.all(batchPromises) returns: results.push(...batchResults),
\* then the next window, or return results
BatchWindowSettled ==
  /\ batch.pc = "window"
  /\ \A k \in 1..Len(batch.ids) : calls[batch.ids[k]].state # "pending"
  /\ LET b1 == [batch EXCEPT !.results = batch.results \o BatchResults(batch)]
         i1 == batch.i + batch.maxConcurrent
     IN IF BatchRejects(batch)
        THEN /\ batch' = [batch EXCEPT !.pc = "rejected"]
             /\ ret' = [op |-> "downloadImagesOptimized", imageUrls |-> batch.urls,
                        results |-> batch.results, ids |-> batch.allIds,
                        rejected |-> TRUE]
             /\ UNCHANGED <<dbVars, calls, downloadQueue, cache, cacheFile, process,
                            files, requests, partial, cwdIsBaseDir, scVars>>
        ELSE IF i1 < Len(batch.urls)
        THEN LET L == WindowLaunched(Downloader, b1, i1)
             IN /\ Commit(L.D)
                /\ batch' = L.b
        ELSE /\ batch' = [b1 EXCEPT !.pc = "done"]
             /\ ret' = [op |-> "downloadImagesOptimized", imageUrls |-> batch.urls,
                        results |-> b1.results, ids |-> batch.allIds,
                        rejected |-> FALSE]
             /\ UNCHANGED <<dbVars, calls, downloadQueue, cache, cacheFile, process,
                            files, requests, partial, cwdIsBaseDir, scVars>>

----------------------------------------------------------------------------
(* The downloader specifications *)

\* what the event loop runs for the downloader: each request is answered by
\* one response, one timeout or one error, and each timer fires once
Responses(maxCalls) ==
  \/ \E r \in requests : OnStatus(r)
  \/ \E r \in requests, location \in Locations : OnRedirect(r, location, maxCalls)
  \/ \E r \in requests : OnFinish(r)
  \/ \E r \in requests, responded \in BOOLEAN : OnTimeout(r, responded)
  \/ \E r \in requests, code \in ErrorCodes : OnError(r, code)
  \/ \E id \in DOMAIN calls : RetryTimer(id)

\* calls made from outside at any time
NextDownload ==
  \/ \E u \in DlUrls, p \in DlPostIds, n \in RetryCounts : Call(u, p, n, MaxCalls)
  \/ \E path \in files : FileRemoved(path)
  \/ Responses(MaxCalls)

SpecDownload == Init /\ [][NextDownload]_vars

\* one call made from outside, and the calls made for its redirects
NextSingle ==
  \/ /\ calls = <<>>
     /\ \E u \in DlUrls, p \in DlPostIds, n \in RetryCounts : Call(u, p, n, MaxCalls)
  \/ Responses(MaxCalls)

SpecSingle == Init /\ [][NextSingle]_vars

\* no call of downloadImageOptimized is waiting for its promise
AllSettled == \A k \in DOMAIN calls : calls[k].state # "pending"

\* the imageUrl and postId of the first call
SameAsFirst(imageUrl, postId) ==
  calls # <<>> => imageUrl = calls[1].url /\ postId = calls[1].postId

\* one call made from outside, and made again after it has settled
NextSequential ==
  \/ /\ AllSettled
     /\ \E u \in DlUrls, p \in DlPostIds, n \in RetryCounts :
          SameAsFirst(u, p) /\ Call(u, p, n, MaxSeqCalls)
  \/ \E path \in files : FileRemoved(path)
  \/ Responses(MaxSeqCalls)

SpecSequential == Init /\ [][NextSequential]_vars

NextBatch ==
  \/ \E us \in UrlLists, p \in DlPostIds, m \in MaxConcurrents : BatchStart(us, p, m)
  \/ BatchWindowSettled
  \/ Responses(MaxBatchCalls)

SpecBatch == Init /\ [][NextBatch]_vars

\* fs.existsSync(cache[hash].localPath): a relative path, resolved against
\* the working directory
existsSync(localPath) == cwdIsBaseDir /\ localPath \in files

\* imageCache.set(imageUrl, relativePath, ...) of the 'finish' handler, on its
\* own: the file of the image is on the disk, the entry is set and the cache
\* is saved
ImageCacheSet(url, postId, interrupted) ==
  /\ process.pc = "up"
  /\ LET localPath == RelativePath(url, DefaultSite, postId)
         c == [cache EXCEPT ![getCacheKey(url, postId)] = localPath]
     IN /\ cache' = c
        /\ cacheFile' = saveCache(c, interrupted)
        /\ files' = files \cup {localPath}
  /\ process' = [process EXCEPT !.pc = IF interrupted THEN "down" ELSE "up"]
  /\ ret' = [op |-> "set", cleaned |-> 0, interrupted |-> interrupted]
  /\ UNCHANGED <<dbVars, calls, downloadQueue, requests, partial, batch,
                 cwdIsBaseDir, scVars>>

\* cleanupCache(): the entries whose file does not exist are deleted, and the
\* cache is saved if there was one
cleanupCache(interrupted) ==
  /\ process.pc = "up"
  /\ LET gone == { k \in CacheKeys : cache[k] # NULL /\ ~existsSync(cache[k]) }
         c == [k \in CacheKeys |-> IF k \in gone THEN NULL ELSE cache[k]]
     IN /\ interrupted => gone # {}
        /\ cache' = c
        /\ cacheFile' = IF gone # {} THEN saveCache(c, interrupted) ELSE cacheFile
        /\ ret' = [op |-> "cleanupCache", cleaned |-> Cardinality(gone),
                   interrupted |-> interrupted]
  /\ process' = [process EXCEPT !.pc = IF interrupted THEN "down" ELSE "up"]
  /\ UNCHANGED <<dbVars, files, calls, downloadQueue, requests, partial, batch,
                 cwdIsBaseDir, scVars>>

\* the program is started again: new ImageCache() calls loadCache(), which
\* returns {} when the file does not exist or JSON.parse throws
loadCache ==
  /\ process.pc = "down"
  /\ cache' = IF cacheFile.exists /\ cacheFile.complete THEN cacheFile.content
              ELSE [k \in CacheKeys |-> NULL]
  /\ process' = StartedProcess
  /\ ret' = [op |-> "loadCache", cleaned |-> 0, interrupted |-> FALSE]
  /\ UNCHANGED <<dbVars, files, calls, downloadQueue, cacheFile, requests, partial,
                 batch,
                 cwdIsBaseDir, scVars>>

\* the image cache on its own: entries are set, image files are removed,
\* the cache is cleaned up, and the process may be interrupted while it
\* writes the cache file
NextCache ==
  \/ \E url \in DlUrls, postId \in DlPostIds, interrupted \in BOOLEAN :
       ImageCacheSet(url, postId, interrupted)
  \/ \E interrupted \in BOOLEAN : cleanupCache(interrupted)
  \/ \E path \in files : FileRemoved(path)
  \/ loadCache

SpecCache == Init /\ [][NextCache]_vars

\* the process ends while requests are in flight (a signal, a crash): its
\* calls, requests, timers and in-flight map are gone; the files that
\* fs.createWriteStream opened at their final path stay as they are
ProcessEnds ==
  /\ process.pc = "up"
  /\ requests # {}
  /\ process' = [process EXCEPT !.pc = "down"]
  /\ calls' = <<>>
  /\ downloadQueue' = [u \in DlUrls |-> 0]
  /\ requests' = {}
  /\ batch' = IdleBatch
  /\ ret' = [op |-> "exit"]
  /\ UNCHANGED <<dbVars, files, partial, cache, cacheFile, cwdIsBaseDir, scVars>>

\* one call made from outside in each run of a program that may end while
\* it downloads and be started again
NextRestart ==
  \/ /\ process.pc = "up"
     /\ calls = <<>>
     /\ \E u \in DlUrls, p \in DlPostIds, n \in RetryCounts : Call(u, p, n, MaxCalls)
  \/ process.pc = "up" /\ Responses(MaxCalls)
  \/ ProcessEnds
  \/ loadCache

SpecRestart == Init /\ [][NextRestart]_vars


----------------------------------------------------------------------------
(* The scrapers: collectAllPostUrls and scrapeBlogPosts of blogScraper.js,   *)
(* collectAllPostUrls and scrapeKeyakiBlogPosts of keyakiBlogScraper.js.     *)
(* A date string is a sequence of tokens: <<>> is the empty string,          *)
(* <<"ymd", n>> is the text "YYYY/MM/DD" (or "YYYY-MM-DD") of day n. A Date  *)
(* is its day number; the days of the model are numbered from 1.             *)

\* PAGINATION.MAX_PAGES_SCRAPING
MAX_PAGES_SCRAPING == 100
\* maxPages of the collector of keyakiBlogScraper.js
KeyakiMaxPages == 100
\* a keyakizaka46 listing page with fewer links than this is the last one
KeyakiPageSize == 20

DateText(day) == <<"ymd", day>>
InvalidDate == 0
StubDates == {<<>>} \cup { DateText(d) : d \in 1..3 }
RangeDates == {NULL, DateText(2)}
Limits == {[all |-> TRUE, n |-> 0]} \cup { [all |-> FALSE, n |-> k] : k \in 1..MaxLimit }
KeyakiLimits == Limits \cup {[all |-> FALSE, n |-> KeyakiPageSize + 1]}
SakuraOptions == { [dateFrom |-> f, dateTo |-> t] : f \in RangeDates, t \in RangeDates }
NoOptions == [dateFrom |-> NULL, dateTo |-> NULL]

\* Texts of titles and contents; <<>> is the empty string
ListTitle == <<"list title">>
DetailTitle == <<"detail title">>
Html == <<"html">>

\* a detail page: the title, date and content its selectors give, the src
\* attributes of the img elements of its blog container and of the img tags
\* of its content HTML
DetailPage(title, date, content, imgs, contentImgs) ==
  [title |-> title, date |-> date, content |-> content,
   imgs |-> imgs, contentImgs |-> contentImgs]
OkDetail == DetailPage(DetailTitle, <<>>, Html, <<>>, <<>>)
BlankDetail == DetailPage(<<>>, <<>>, <<>>, <<>>, <<>>)

\* the stub lists of a sakurazaka46 listing page: uniqueUrls keeps the first
\* entry of each href
SakuraStubs ==
  { [url |-> u, date |-> d, title |-> ListTitle, detail |-> OkDetail] :
      u \in PostUrls, d \in StubDates }
SakuraStubLists ==
  { l \in UNION { [1..n -> SakuraStubs] : n \in 0..MaxStubs } :
      \A i, j \in DOMAIN l : l[i].url = l[j].url => i = j }
SakuraPages == { [posts |-> l, hasNext |-> h] : l \in SakuraStubLists, h \in BOOLEAN }

\* the n links of page p of a keyakizaka46 listing; blank: the detail page
\* of its first post has neither title nor content
KeyakiPage(p, n, blank) ==
  [posts |-> [i \in 1..n |->
                [url |-> "k" \o ToString(p) \o "_" \o ToString(i),
                 date |-> DateText(1),
                 detail |-> IF blank /\ i = 1 THEN BlankDetail ELSE OkDetail]],
   hasNext |-> n >= KeyakiPageSize]
KeyakiPages(p) ==
  { KeyakiPage(p, n, blank) : n \in {0, 1, KeyakiPageSize}, blank \in BOOLEAN }

\* a feed: the listing pages 0, 1, ... of a member. After the last page of
\* `pages` the site answers with a page without entries, or, when `forever`,
\* with the last page again
SakuraFeeds ==
  { [pages |-> ps, forever |-> FALSE] :
      ps \in UNION { [1..n -> SakuraPages] : n \in 1..MaxFeedPages } }
  \cup { [pages |-> <<pg>>, forever |-> TRUE] : pg \in SakuraPages }
KeyakiFeeds ==
  { [pages |-> ps, forever |-> FALSE] :
      ps \in UNION { { f \in [1..n -> UNION { KeyakiPages(p) : p \in 1..n }] :
                         \A p \in 1..n : f[p] \in KeyakiPages(p) } :
                     n \in 1..MaxFeedPages } }
  \cup { [pages |-> <<pg>>, forever |-> TRUE] : pg \in KeyakiPages(1) }

\* what page.goto + page.evaluate give for listing page number currentPage
PageResult(feed, currentPage) ==
  IF currentPage < Len(feed.pages) THEN feed.pages[currentPage + 1]
  ELSE IF feed.forever THEN feed.pages[Len(feed.pages)]
  ELSE [posts |-> <<>>, hasNext |-> FALSE]

\* parseBlogDate: null for an empty or unparseable string
parseBlogDate(dateStr) ==
  IF Len(dateStr) = 2 /\ dateStr[1] = "ymd" THEN dateStr[2] ELSE InvalidDate

\* new Date(dateFrom) for a "YYYY-MM-DD" string
NewDate(dateStr) == dateStr[2]

\* isDateInRange without the dateFrom test
isDateInRangeUpTo(dateStr, dateFrom, dateTo) ==
  LET postDate == parseBlogDate(dateStr)
  IN IF postDate = InvalidDate THEN TRUE
     ELSE ~(dateTo # NULL /\ postDate > NewDate(dateTo))

\* isDateInRange: toDate is the end of the day dateTo
isDateInRange(dateStr, dateFrom, dateTo) ==
  LET postDate == parseBlogDate(dateStr)
  IN IF postDate = InvalidDate THEN TRUE
     ELSE IF dateFrom # NULL /\ postDate < NewDate(dateFrom) THEN FALSE
     ELSE IF dateTo # NULL /\ postDate > NewDate(dateTo) THEN FALSE
     ELSE TRUE

\* oldestPostOnPage?.date
LastDate(posts) == IF Len(posts) = 0 THEN <<>> ELSE posts[Len(posts)].date

\* a page is never taken as the end of the listing
NeverEnds(posts) == FALSE

\* pageResult.posts.length === 0 (pageUrls.length === 0): end of pagination
NoEntries(posts) == Len(posts) = 0

\* one iteration of the while loop of collectAllPostUrls (blogScraper.js)
\* after the page was fetched: the new allPosts and whether the loop goes on
SakuraCollectPage(sc, pageResult) ==
  IF NoEntries(pageResult.posts)
  THEN [allPosts |-> sc.allPosts, more |-> FALSE]
  ELSE LET InRange(post) == isDateInRange(post.date, sc.dateFrom, sc.dateTo)
           allPosts == sc.allPosts \o SelectSeq(pageResult.posts, InRange)
           oldestDate == parseBlogDate(LastDate(pageResult.posts))
           stop == IF sc.dateFrom # NULL
                   THEN oldestDate # InvalidDate /\ oldestDate < NewDate(sc.dateFrom)
                   ELSE ~sc.limit.all /\ Len(allPosts) >= sc.limit.n
       IN [allPosts |-> allPosts,
           more |-> ~stop /\ pageResult.hasNext
                    /\ sc.currentPage + 1 < MAX_PAGES_SCRAPING]

\* one iteration of the while loop of collectAllPostUrls (keyakiBlogScraper.js)
KeyakiCollectPage(sc, pageResult) ==
  IF NoEntries(pageResult.posts)
  THEN [allPosts |-> sc.allPosts, more |-> FALSE]
  ELSE LET allPosts == sc.allPosts \o pageResult.posts
           stop == ~sc.limit.all /\ Len(allPosts) >= sc.limit.n
       IN [allPosts |-> allPosts,
           more |-> ~stop /\ Len(pageResult.posts) >= KeyakiPageSize
                    /\ sc.currentPage + 1 < KeyakiMaxPages]

\* allPosts without the slice
NoSlice(allPosts, limit) == allPosts

\* allPosts.slice(0, limit)
Slice(allPosts, limit) == SubSeq(allPosts, 1, Min(limit, Len(allPosts)))

\* postsToProcess of scrapeBlogPosts and of scrapeKeyakiBlogPosts
PostsToProcess(sc, allPosts) ==
  IF sc.site = "sakurazaka46"
  THEN IF sc.limit.all \/ sc.dateFrom # NULL \/ sc.dateTo # NULL
       THEN allPosts ELSE Slice(allPosts, sc.limit.n)
  ELSE IF sc.limit.all THEN allPosts ELSE Slice(allPosts, sc.limit.n)

\* The image URLs of a detail page are strings of characters. The src
\* attributes of the model are the strings of at most MaxSrcLen characters of
\* SrcChars, and the absolute URLs made of a site's base URL and at most one
\* more character.
SrcChars == {"/", "n", "A", "v", "e", "u"}
ShortSrcs(len) == UNION { [1..n -> SrcChars] : n \in 0..len }

\* the prefixes of fullSrc
SakuraBase == <<"h", "t", "t", "p", "s", ":", "/", "/", "s", "a", "k", "u", "r", "a", "z", "a", "k", "a", "4", "6", ".", "c", "o", "m">>
KeyakiBase == <<"h", "t", "t", "p", "s", ":", "/", "/", "w", "w", "w", ".", "k", "e", "y", "a", "k", "i", "z", "a", "k", "a", "4", "6", ".", "c", "o", "m">>
BaseUrl(site) == IF site = "sakurazaka46" THEN SakuraBase ELSE KeyakiBase
Http == <<"h", "t", "t", "p">>

Srcs(site) ==
  ShortSrcs(MaxSrcLen) \cup {BaseUrl(site)}
    \cup { Append(BaseUrl(site), c) : c \in SrcChars }
\* the src attributes of the img elements of a container with at most one img
SrcLists(site) == {<<>>} \cup { <<src>> : src \in Srcs(site) }

\* IMAGE_EXCLUDE_PATTERNS (the same list is inlined in keyakiBlogScraper.js)
IMAGE_EXCLUDE_PATTERNS ==
  { <<"i", "c", "o", "n">>,
    <<"l", "o", "g", "o">>,
    <<"h", "e", "a", "d", "e", "r">>,
    <<"f", "o", "o", "t", "e", "r">>,
    <<"n", "a", "v">>,
    <<"m", "e", "n", "u">>,
    <<"a", "p", "p", "_">>,
    <<"j", "a", "s", "r", "a", "c">>,
    <<"t", "w", "e", "m", "o", "j", "i">> }

\* String.prototype.toLowerCase on the characters of the model
LowerChar(c) ==
  CASE c = "A" -> "a" [] c = "N" -> "n" [] c = "V" -> "v" [] OTHER -> c
toLowerCase(str) == [i \in 1..Len(str) |-> LowerChar(str[i])]

\* String.prototype.includes and startsWith
includes(str, pattern) ==
  \E i \in 0..(Len(str) - Len(pattern)) :
    SubSeq(str, i + 1, i + Len(pattern)) = pattern
startsWith(str, prefix) ==
  Len(str) >= Len(prefix) /\ SubSeq(str, 1, Len(prefix)) = prefix

\* excludePatterns.some(pattern => src.toLowerCase().includes(pattern))
isExcluded(src) ==
  \E pattern \in IMAGE_EXCLUDE_PATTERNS : includes(toLowerCase(src), pattern)

\* src.startsWith('http') ? src : `${base}${src}`
fullSrc(site, src) ==
  IF startsWith(src, Http) THEN src ELSE BaseUrl(site) \o src

\* one img of the DOM pass or one match of the regex pass; st is the pair of
\* images and imageSet
AddImage(site, st, src) ==
  IF src # <<>> /\ src \notin st.imageSet /\ ~isExcluded(src)
  THEN [images |-> Append(st.images, fullSrc(site, src)),
        imageSet |-> st.imageSet \cup {src}]
  ELSE st

RECURSIVE AddImages(_, _, _)
AddImages(site, st, srcs) ==
  IF srcs = <<>> THEN st
  ELSE AddImages(site, AddImage(site, st, Head(srcs)), Tail(srcs))

\* the images of page.evaluate on a detail page: the img elements of the
\* blog container (imgs), and in blogScraper.js also the img tags of the
\* content HTML (contentImgs) when the content is not empty
ExtractImages(site, detail) ==
  LET dom == AddImages(site, [images |-> <<>>, imageSet |-> {}], detail.imgs)
  IN IF site = "sakurazaka46" /\ detail.content # <<>>
     THEN AddImages(site, dom, detail.contentImgs).images
     ELSE dom.images

\* what page.evaluate returns for a detail page
evaluateDetail(site, detail) ==
  [title |-> detail.title, date |-> detail.date, content |-> detail.content,
   images |-> ExtractImages(site, detail)]

\* a || b on strings
OrElse(a, b) == IF a # <<>> THEN a ELSE b

\* the post scrapeBlogPosts pushes for a stub and the details of its page
SakuraPost(post, details) ==
  [url |-> post.url,
   title |-> OrElse(details.title, post.title),
   date |-> OrElse(details.date, post.date),
   content |-> details.content,
   images |-> details.images]

\* a keyakizaka46 post whose date is taken from the detail page first
KeyakiPostDetailFirst(post, postData) ==
  [url |-> post.url,
   title |-> postData.title,
   date |-> OrElse(postData.date, post.date),
   content |-> postData.content,
   images |-> postData.images,
   site |-> "keyakizaka46"]

\* the post scrapeKeyakiBlogPosts pushes: the date of the listing comes first
KeyakiPost(post, postData) ==
  [url |-> post.url,
   title |-> postData.title,
   date |-> OrElse(post.date, postData.date),
   content |-> postData.content,
   images |-> postData.images,
   site |-> "keyakizaka46"]

\* blogPosts after the loop body for a stub: scrapeKeyakiBlogPosts pushes
\* only if (postData.title || postData.content)
PushPost(site, blogPosts, post) ==
  LET details == evaluateDetail(site, post.detail)
  IN IF site = "sakurazaka46"
     THEN Append(blogPosts, SakuraPost(post, details))
     ELSE IF details.title # <<>> \/ details.content # <<>>
     THEN Append(blogPosts, KeyakiPost(post, details))
     ELSE blogPosts

\* RATE_LIMIT of utils/constants.js and of keyakiBlogScraper.js
MIN_DELAY == 1000
MAX_DELAY == 2000
BURST_LIMIT == 20
LONG_BREAK == 3000
KeyakiBurstLimit == 10

\* resetRateLimitState()
resetRateLimitState(r) == [r EXCEPT !.lastRequestTime = 0]

\* the burst test counts request number 0 as a break too
IsBurstFromZero(requestNumber, burstLimit) == requestNumber % burstLimit = 0

\* requestNumber > 0 && requestNumber % RATE_LIMIT.BURST_LIMIT === 0
IsBurst(requestNumber, burstLimit) ==
  requestNumber > 0 /\ requestNumber % burstLimit = 0

\* the random delay computed without its MIN_DELAY part
SleepOfRandomOnly(r, requestNumber, random) ==
  LET timeSinceLastRequest == r.now - r.lastRequestTime
      requiredWait == Max(0, random - timeSinceLastRequest)
  IN IF IsBurst(requestNumber, BURST_LIMIT) THEN LONG_BREAK ELSE requiredWait

\* the time smartDelay(requestNumber) of scraperUtils.js sleeps when it is
\* called at r.now; random is Math.random() * (MAX_DELAY - MIN_DELAY)
SleepOf(r, requestNumber, random) ==
  LET timeSinceLastRequest == r.now - r.lastRequestTime
      randomDelay == MIN_DELAY + random
      requiredWait == Max(0, randomDelay - timeSinceLastRequest)
  IN IF IsBurst(requestNumber, BURST_LIMIT) THEN LONG_BREAK ELSE requiredWait

\* The scrape actions below log what smartDelay is called with (gotos) and
\* leave the clock alone; the calls with their times are the action
\* smartDelay of SpecDelay.

\* the rate limiting before the request of listing page currentPage:
\* blogScraper.js awaits smartDelay(currentPage) before every page.goto,
\* keyakiBlogScraper.js awaits smartDelay(currentPage - 1) when currentPage > 0
ListRequest(site, currentPage) ==
  IF site = "sakurazaka46"
  THEN [kind |-> "list", delayed |-> TRUE, n |-> currentPage]
  ELSE IF currentPage > 0
  THEN [kind |-> "list", delayed |-> TRUE, n |-> currentPage - 1]
  ELSE [kind |-> "list", delayed |-> FALSE, n |-> 0]

\* await smartDelay(index) before the request of a detail page
DetailRequest(site, index) == [kind |-> "detail", delayed |-> TRUE, n |-> index]

ScrapeCall(site, feed, limit, options) ==
  /\ scrape.pc = "idle"
  /\ scrape' = [pc |-> "collect", site |-> site, feed |-> feed, limit |-> limit,
                dateFrom |-> options.dateFrom, dateTo |-> options.dateTo,
                currentPage |-> 0, allPosts |-> <<>>, pages |-> <<>>,
                postsToProcess |-> <<>>, index |-> 0, blogPosts |-> <<>>,
                gotos |-> <<>>, browser |-> "open"]
  /\ rate' = IF site = "sakurazaka46" THEN resetRateLimitState(rate) ELSE rate
  /\ ret' = NoRet
  /\ UNCHANGED <<dbVars, files, dlVars>>

\* scrapeBlogPosts(memberId, memberName, limit, options) up to the first
\* listing page request; feed: the listing of memberId
scrapeBlogPosts(feed, limit, options) ==
  ScrapeCall("sakurazaka46", feed, limit, options)

\* scrapeKeyakiBlogPosts(memberName, limit) for a member of KEYAKI_MEMBER_MAP
scrapeKeyakiBlogPosts(feed, limit) ==
  ScrapeCall("keyakizaka46", feed, limit, NoOptions)

\* a catch block that returns blogPosts without browser.close()
ScrapeReturnsOpen(sc, posts, error) ==
  /\ scrape' = [sc EXCEPT !.pc = "done", !.blogPosts = posts,
                          !.browser = IF error THEN @ ELSE "closed"]
  /\ ret' = [op |-> IF sc.site = "sakurazaka46" THEN "scrapeBlogPosts"
                    ELSE "scrapeKeyakiBlogPosts",
             posts |-> posts, error |-> error]

\* the scrape returns posts (after browser.close())
ScrapeReturns(sc, posts, error) ==
  /\ scrape' = [sc EXCEPT !.pc = "done", !.blogPosts = posts,
                          !.browser = "closed"]
  /\ ret' = [op |-> IF sc.site = "sakurazaka46" THEN "scrapeBlogPosts"
                    ELSE "scrapeKeyakiBlogPosts",
             posts |-> posts, error |-> error]

\* a listing page is fetched and evaluated: the rest of the loop iteration,
\* and after the last iteration the return of collectAllPostUrls and the
\* choice of postsToProcess
CollectPage ==
  /\ scrape.pc = "collect"
  /\ LET pageResult == PageResult(scrape.feed, scrape.currentPage)
         step == IF scrape.site = "sakurazaka46"
                 THEN SakuraCollectPage(scrape, pageResult)
                 ELSE KeyakiCollectPage(scrape, pageResult)
         sc1 == [scrape EXCEPT !.allPosts = step.allPosts,
                               !.pages = Append(scrape.pages, pageResult),
                               !.gotos = Append(scrape.gotos,
                                  ListRequest(scrape.site, scrape.currentPage))]
     IN IF step.more
        THEN /\ scrape' = [sc1 EXCEPT !.currentPage = scrape.currentPage + 1]
             /\ ret' = NoRet
        ELSE IF scrape.site = "keyakizaka46" /\ Len(step.allPosts) = 0
        THEN ScrapeReturns(sc1, <<>>, FALSE)
        ELSE /\ scrape' = [sc1 EXCEPT !.pc = "process",
                             !.postsToProcess = PostsToProcess(scrape, step.allPosts)]
             /\ ret' = NoRet
  /\ UNCHANGED <<dbVars, files, dlVars, rate>>

\* page.goto of a listing page throws (timeout, network error): the catch
\* block of the scrape closes the browser and returns blogPosts
CollectFails ==
  /\ scrape.pc = "collect"
  /\ ScrapeReturns([scrape EXCEPT !.gotos = Append(scrape.gotos,
                        ListRequest(scrape.site, scrape.currentPage))],
                   scrape.blogPosts, TRUE)
  /\ UNCHANGED <<dbVars, files, dlVars, rate>>

\* one iteration of the for loop over postsToProcess
ProcessPost ==
  /\ scrape.pc = "process"
  /\ scrape.index < Len(scrape.postsToProcess)
  /\ LET post == scrape.postsToProcess[scrape.index + 1]
     IN scrape' = [scrape EXCEPT
                     !.index = scrape.index + 1,
                     !.gotos = Append(scrape.gotos,
                                    DetailRequest(scrape.site, scrape.index)),
                     !.blogPosts = PushPost(scrape.site, scrape.blogPosts, post)]
  /\ ret' = NoRet
  /\ UNCHANGED <<dbVars, files, dlVars, rate>>

\* page.goto or page.evaluate of a detail page throws
ProcessFails ==
  /\ scrape.pc = "process"
  /\ scrape.index < Len(scrape.postsToProcess)
  /\ ScrapeReturns([scrape EXCEPT !.gotos = Append(scrape.gotos,
                        DetailRequest(scrape.site, scrape.index))],
                   scrape.blogPosts, TRUE)
  /\ UNCHANGED <<dbVars, files, dlVars, rate>>

\* the for loop is over: browser.close(), return blogPosts
ScrapeDone ==
  /\ scrape.pc = "process"
  /\ scrape.index = Len(scrape.postsToProcess)
  /\ ScrapeReturns(scrape, scrape.blogPosts, FALSE)
  /\ UNCHANGED <<dbVars, files, dlVars, rate>>

\* collectAllPostUrls of blogScraper.js as a function: the stubs it returns
\* when no page request fails, started in the loop state sc
RECURSIVE collectAllPostUrls(_)
collectAllPostUrls(sc) ==
  LET step == SakuraCollectPage(sc, PageResult(sc.feed, sc.currentPage))
  IN IF step.more
     THEN collectAllPostUrls([sc EXCEPT !.allPosts = step.allPosts,
                                        !.currentPage = sc.currentPage + 1])
     ELSE step.allPosts

NextScrape ==
  \/ /\ scrape.pc = "idle"
     /\ \E feed \in SakuraFeeds, limit \in Limits, options \in SakuraOptions :
          scrapeBlogPosts(feed, limit, options)
  \/ /\ scrape.pc = "idle"
     /\ \E feed \in KeyakiFeeds, limit \in KeyakiLimits :
          scrapeKeyakiBlogPosts(feed, limit)
  \/ CollectPage
  \/ CollectFails
  \/ ProcessPost
  \/ ProcessFails
  \/ ScrapeDone

SpecScrape == Init /\ [][NextScrape]_vars

\* listings of one page with one stub, for every combination of empty and
\* non-empty titles, dates and contents in the listing and on the detail page
SakuraDetailFeeds ==
  { [pages |-> << [posts |-> << [url |-> "u1", date |-> d, title |-> t,
                                 detail |-> DetailPage(dt, dd, c, <<>>, <<>>)] >>,
                   hasNext |-> FALSE] >>,
     forever |-> FALSE] :
      d \in {<<>>, DateText(1)}, t \in {<<>>, ListTitle},
      dt \in {<<>>, DetailTitle}, dd \in {<<>>, DateText(2)}, c \in {<<>>, Html} }
KeyakiDetailFeeds ==
  { [pages |-> << [posts |-> << [url |-> "k1_1", date |-> d,
                                 detail |-> DetailPage(dt, dd, c, <<>>, <<>>)] >>,
                   hasNext |-> FALSE] >>,
     forever |-> FALSE] :
      d \in {<<>>, DateText(1)},
      dt \in {<<>>, DetailTitle}, dd \in {<<>>, DateText(2)}, c \in {<<>>, Html} }

NextDetail ==
  \/ /\ scrape.pc = "idle"
     /\ \E feed \in SakuraDetailFeeds, limit \in Limits, options \in SakuraOptions :
          scrapeBlogPosts(feed, limit, options)
  \/ /\ scrape.pc = "idle"
     /\ \E feed \in KeyakiDetailFeeds, limit \in Limits :
          scrapeKeyakiBlogPosts(feed, limit)
  \/ CollectPage
  \/ CollectFails
  \/ ProcessPost
  \/ ProcessFails
  \/ ScrapeDone

SpecDetail == Init /\ [][NextDetail]_vars

\* startServer() of webServer.js, called by startWebViewer of the menu loop
\* between two scrapes: the SIGINT handler is installed
startServer ==
  /\ process.pc = "up"
  /\ ~process.sigint
  /\ scrape.pc = "idle"
  /\ process' = [process EXCEPT !.sigint = TRUE]
  /\ ret' = NoRet
  /\ UNCHANGED <<dbVars, files, calls, downloadQueue, cache, cacheFile, requests,
                 partial,
                 batch, cwdIsBaseDir, scVars>>

\* the process receives SIGINT while a scrape runs. With the handler of
\* startServer: server.close(() => { dataService.close(); process.exit(0) }).
\* Without it the process ends on the signal. No code of index.js or of
\* the scrapers closes db or the browser on the signal; playwright: the
\* library ends the browser it launched, which the repository leaves to it
Sigint(playwright) ==
  /\ process.pc = "up"
  /\ scrape.pc \in {"collect", "process"}
  /\ process' = [process EXCEPT
                   !.pc = "down",
                   !.dataService = IF process.sigint THEN "closed" ELSE @]
  /\ scrape' = [scrape EXCEPT !.browser = IF playwright THEN "closed" ELSE @]
  /\ ret' = [op |-> "SIGINT"]
  /\ UNCHANGED <<dbVars, files, calls, downloadQueue, cache, cacheFile, requests,
                 partial,
                 batch, cwdIsBaseDir, rate>>

\* scrapes of one-stub listings that a signal may interrupt
NextInterrupt ==
  \/ /\ scrape.pc = "idle" /\ process.pc = "up"
     /\ \E feed \in SakuraDetailFeeds, limit \in Limits, options \in SakuraOptions :
          scrapeBlogPosts(feed, limit, options)
  \/ /\ scrape.pc = "idle" /\ process.pc = "up"
     /\ \E feed \in KeyakiDetailFeeds, limit \in Limits :
          scrapeKeyakiBlogPosts(feed, limit)
  \/ process.pc = "up" /\ CollectPage
  \/ process.pc = "up" /\ CollectFails
  \/ process.pc = "up" /\ ProcessPost
  \/ process.pc = "up" /\ ProcessFails
  \/ process.pc = "up" /\ ScrapeDone
  \/ startServer
  \/ \E playwright \in BOOLEAN : Sigint(playwright)

SpecInterrupt == Init /\ [][NextInterrupt]_vars

\* scrapeKeyakiBlogPosts(memberName, limit) for a name that is not in
\* KEYAKI_MEMBER_MAP: browser.close(), return []
scrapeKeyakiUnknownMember(limit) ==
  /\ scrape.pc = "idle"
  /\ ScrapeReturns([pc |-> "collect", site |-> "keyakizaka46",
                    feed |-> [pages |-> <<>>, forever |-> FALSE], limit |-> limit,
                    dateFrom |-> NULL, dateTo |-> NULL,
                    currentPage |-> 0, allPosts |-> <<>>, pages |-> <<>>,
                    postsToProcess |-> <<>>, index |-> 0, blogPosts |-> <<>>,
                    gotos |-> <<>>, browser |-> "open"],
                   <<>>, FALSE)
  /\ UNCHANGED <<dbVars, files, dlVars, rate>>

\* a listing without posts
EmptyFeed == [pages |-> << [posts |-> <<>>, hasNext |-> FALSE] >>, forever |-> FALSE]

\* scrapes of listings with no post or one post (sakurazaka46) and of the
\* keyakizaka46 listings, for known and unknown members
NextBrowser ==
  \/ /\ scrape.pc = "idle"
     /\ \E feed \in SakuraDetailFeeds \cup {EmptyFeed}, limit \in Limits,
           options \in SakuraOptions :
          scrapeBlogPosts(feed, limit, options)
  \/ /\ scrape.pc = "idle"
     /\ \E feed \in KeyakiFeeds, limit \in KeyakiLimits :
          scrapeKeyakiBlogPosts(feed, limit)
  \/ \E limit \in KeyakiLimits : scrapeKeyakiUnknownMember(limit)
  \/ CollectPage
  \/ CollectFails
  \/ ProcessPost
  \/ ProcessFails
  \/ ScrapeDone

SpecBrowser == Init /\ [][NextBrowser]_vars

\* the times between the return of a smartDelay call and the next call (the
\* page request in between), the values of Math.random() * (MAX_DELAY -
\* MIN_DELAY), and the request numbers of the calls
ElapsedTimes == {0, 500, 1500, 4000}
RandomParts == {0, 500, 999}
RequestNumbers == {0, 1, BURST_LIMIT, 2 * BURST_LIMIT}

\* smartDelay(requestNumber) of scraperUtils.js, called `elapsed` ms after
\* the last call returned, up to its return
smartDelay(requestNumber, elapsed, random) ==
  /\ rate.calls < MaxDelayCalls
  /\ LET called == [rate EXCEPT !.now = rate.now + elapsed]
         slept == SleepOf(called, requestNumber, random)
     IN /\ rate' = [now |-> called.now + slept,
                    lastRequestTime |-> called.now + slept,
                    calls |-> rate.calls + 1]
        /\ ret' = [op |-> "smartDelay", requestNumber |-> requestNumber,
                   timeSinceLastRequest |-> called.now - called.lastRequestTime,
                   randomDelay |-> MIN_DELAY + random,
                   slept |-> slept, returned |-> called.now + slept]
  /\ UNCHANGED <<dbVars, files, dlVars, scrape>>

NextDelay ==
  \E requestNumber \in RequestNumbers, elapsed \in ElapsedTimes,
     random \in RandomParts :
    smartDelay(requestNumber, elapsed, random)

SpecDelay == Init /\ [][NextDelay]_vars

\* PAGINATION.POSTS_PER_PAGE
POSTS_PER_PAGE == 20

\* a sakurazaka46 listing of one full page, and a keyakizaka46 one
SakuraFullFeed ==
  [pages |-> << [posts |-> [i \in 1..POSTS_PER_PAGE |->
                             [url |-> "s" \o ToString(i), date |-> DateText(2),
                              title |-> ListTitle, detail |-> OkDetail]],
                 hasNext |-> FALSE] >>,
   forever |-> FALSE]
KeyakiFullFeed ==
  [pages |-> <<KeyakiPage(1, KeyakiPageSize, FALSE)>>, forever |-> FALSE]

\* scrapes of a listing of one full page
NextBurst ==
  \/ /\ scrape.pc = "idle"
     /\ \E limit \in Limits, options \in SakuraOptions :
          scrapeBlogPosts(SakuraFullFeed, limit, options)
  \/ /\ scrape.pc = "idle"
     /\ \E limit \in KeyakiLimits : scrapeKeyakiBlogPosts(KeyakiFullFeed, limit)
  \/ CollectPage
  \/ CollectFails
  \/ ProcessPost
  \/ ProcessFails
  \/ ScrapeDone

SpecBurst == Init /\ [][NextBurst]_vars

\* page.evaluate on the detail page of a post, on its own
EvaluateDetail(site, detail) ==
  /\ ret = NoRet
  /\ ret' = [op |-> "evaluate", site |-> site, detail |-> detail,
             details |-> evaluateDetail(site, detail)]
  /\ UNCHANGED <<dbVars, files, dlVars, scVars>>

\* detail pages with at most one img in the blog container and at most one
\* img tag in the content HTML
NextExtract ==
  \/ /\ ret = NoRet
     /\ \E imgs \in SrcLists("sakurazaka46"),
           contentImgs \in SrcLists("sakurazaka46") :
          EvaluateDetail("sakurazaka46",
                         DetailPage(DetailTitle, <<>>, Html, imgs, contentImgs))
  \/ /\ ret = NoRet
     /\ \E imgs \in SrcLists("keyakizaka46") :
          EvaluateDetail("keyakizaka46",
                         DetailPage(DetailTitle, <<>>, Html, imgs, <<>>))

SpecExtract == Init /\ [][NextExtract]_vars

----------------------------------------------------------------------------
(* Claims on the persistence layer *)

\* C1: blog_posts holds at most one row per url, and right after saveBlogPost(p)
\* has completed the row with url = p.url carries p's title, date and content.
C1_UpsertByUrl ==
  /\ \A r1, r2 \in blog_posts : r1.url = r2.url => r1 = r2
  /\ ret.op = "saveBlogPost" =>
       \E r \in blog_posts :
         /\ r.url = ret.post.url
         /\ r.id = ret.value
         /\ r.title = ret.post.title
         /\ r.date = ret.post.date
         /\ r.content = ret.post.content

\* a save has just replaced a row of the same url that had another content
C1_Witness ==
  /\ ret.op = "saveBlogPost"
  /\ \E old \in ret.replaced : old.content # ret.post.content

\* C2: for a post saved with images L (all its image rows inserted), followed by
\* updateBlogPostImages(url, P) with P as long as L, getBlogPost yields
\* images = L and local_images = P.
C2_RoundTrip ==
  ( /\ ret.op = "updateBlogPostImages"
    /\ ret.error = "none"
    /\ ret.iso
    /\ Len(ret.paths) > 0
    /\ Len(ret.paths) = Len(saved[ret.postId]) )
  => /\ getBlogPost(ret.postId).images = saved[ret.postId]
     /\ getBlogPost(ret.postId).local_images = ret.paths

\* C3: after the scrape-and-download flow (every image row inserted), an image row's local_path is non-null
\* only if the download of that row's own image succeeded, and is then the path
\* that download returned; rows whose download failed have local_path = NULL.
C3_LocalPathOwnDownload ==
  (ret.op = "scrape" /\ imageStmts = {}) =>
    \A k \in 1..Len(ret.posts) :
      \A row \in PostByUrl(ret.posts[k].url) :
        LET rows == ImageRowsOf(row.id)
            dl == ret.downloaded[k]
        IN \A i \in 1..Len(rows) :
             /\ rows[i].local_path # NULL =>
                  dl[i].success /\ rows[i].local_path = dl[i].localPath
             /\ ~dl[i].success => rows[i].local_path = NULL

\* C4: deleteBlogPost(id) of an existing post leaves no image row and no post row
\* of that id and resolves with 1; of an id that does not exist it resolves with
\* 0 and leaves both tables unchanged.
C4_CascadeDelete ==
  (ret.op = "deleteBlogPost" /\ ret.iso) =>
    /\ ret.existed =>
         /\ ret.value = 1
         /\ PostById(ret.id) = {}
         /\ \A r \in blog_images : r.post_id # ret.id
    /\ ~ret.existed => (ret.value = 0 /\ ret.removed = 0)


\* C5: a downloadImageOptimized call made from outside with the url and postId
\* of an earlier call that resolved, while the file that call returned is
\* there, sends no request and resolves at once with the path of that call
C5_CacheShortCircuit ==
  \A k \in DOMAIN calls :
    (calls[k].parent = 0 /\ calls[k].prior # {}) =>
      /\ ~calls[k].fetched
      /\ calls[k].state = "resolved"
      /\ calls[k].result \in calls[k].prior

\* C6: no two requests for the same URL are in flight at the same time, and a
\* call that found its URL in the downloadQueue sends no request and settles
\* when, and with what, the call it waits for settles
C6_InFlightDedup ==
  /\ \A r1, r2 \in requests :
       calls[r1.call].url = calls[r2.call].url => r1 = r2
  /\ \A w \in DOMAIN calls :
       calls[w].mode = "waiter" =>
         /\ ~calls[w].fetched
         /\ calls[w].state = calls[calls[w].waitOn].state
         /\ calls[w].result = calls[calls[w].waitOn].result

C8_RetryBudget ==
  \A k \in DOMAIN calls :
    /\ calls[k].attempts <= calls[k].retryCount
    /\ Cardinality({ r \in requests : r.call = k }) <= 1

\* C9: once a request of a call has failed with ENOTFOUND the call is rejected
\* and starts no attempt beyond the ones it had started by then
C9_HostNotFound ==
  \A k \in DOMAIN calls :
    calls[k].nf > 0 =>
      /\ calls[k].state = "rejected"
      /\ calls[k].attempts = calls[k].nf

\* C10: the array downloadImagesOptimized returns has one result per input
\* URL, and result i carries input URL i and the outcome of the call made for it
C10_ResultPerUrl ==
  ret.op = "downloadImagesOptimized" =>
    /\ Len(ret.results) = Len(ret.imageUrls)
    /\ \A i \in 1..Len(ret.results) :
         LET c == calls[ret.ids[i]]
             res == ret.results[i]
         IN /\ res.url = ret.imageUrls[i]
            /\ res.success = (c.state = "resolved")
            /\ res.success => res.localPath = c.result
            /\ ~res.success => res.localPath = NULL /\ res.error = c.result

C10_Witness ==
  /\ ret.op = "downloadImagesOptimized"
  /\ batch.order = <<2, 1>>
  /\ ret.imageUrls[1] # ret.imageUrls[2]
  /\ \E i, j \in 1..Len(ret.results) :
       ret.results[i].success /\ ~ret.results[j].success

\* C11: downloadImagesOptimized never rejects because a download failed: a
\* finished batch has attempted every URL, reports every failed one as
\* {success: false, localPath: null, error} and every successful one as
\* {success: true, localPath}.
C11_PartialBatchFailure ==
  /\ batch.pc # "rejected"
  /\ ret.op = "downloadImagesOptimized" =>
       /\ ~ret.rejected
       /\ Len(ret.ids) = Len(ret.imageUrls)
       /\ \A i \in 1..Len(ret.ids) :
            LET c == calls[ret.ids[i]]
                res == ret.results[i]
            IN /\ c.url = ret.imageUrls[i]
               /\ c.state = "rejected" =>
                    /\ ~res.success
                    /\ res.localPath = NULL
                    /\ res.error # NULL
               /\ c.state = "resolved" =>
                    /\ res.success
                    /\ res.localPath # NULL
                    /\ res.error = NULL

\* a batch of two windows whose first download failed and whose second one,
\* started afterwards, succeeded
C11_Witness ==
  /\ ret.op = "downloadImagesOptimized"
  /\ batch.maxConcurrent = 1
  /\ Len(ret.results) = 2
  /\ ~ret.results[1].success
  /\ ret.results[2].success

\* C12: while downloadImagesOptimized waits for a window, at most
\* maxConcurrent downloads are in flight, and none of them belongs to an
\* earlier window.
C12_BoundedParallelism ==
  batch.pc = "window" =>
    /\ Cardinality({ k \in DOMAIN calls :
                      calls[k].parent = 0 /\ calls[k].state = "pending" })
         <= batch.maxConcurrent
    /\ Cardinality(requests) <= batch.maxConcurrent
    /\ \A r \in requests : r.call >= batch.ids[1]

\* a step that runs one UPDATE of the updateBlogPostImages call in flight
IsUpdRun ==
  /\ upd.pc = "run"
  /\ upd'.pc = "idle" \/ upd'.todo # upd.todo

C18_PostNotFound ==
  /\ [](ret.op = "updateBlogPostImages" =>
          (ret.error = "Post not found") = (PostByUrl(ret.url) = {}))
  /\ [][(ret'.op = "updateBlogPostImages" /\ PostByUrl(ret'.url) = {}) =>
          blog_images' = blog_images]_vars

\* the rejected call, made while the tables hold a post with image rows
\* that have paths
C18_Witness ==
  /\ ret.op = "updateBlogPostImages"
  /\ ret.error = "Post not found"
  /\ PostByUrl(ret.url) = {}
  /\ \E r \in blog_images : r.local_path # NULL

\* C19: a reader never observes an intermediate state of a persistence
\* call: whenever a post row is there, its image rows are those of the
\* images array it was saved with.
C19_AtomicCalls ==
  \A p \in blog_posts :
    p.id \in DOMAIN saved =>
      [i \in 1..Len(ImageRowsOf(p.id)) |-> ImageRowsOf(p.id)[i].image_url]
        = saved[p.id]

\* C20: a deleteBlogPost during which the unlink of a file failed still
\* deletes the image rows and the post row of the id and resolves with the
\* number of post rows deleted.
C20_UnlinkFailureLogged ==
  (ret.op = "deleteBlogPost" /\ ret.failed # {}) =>
    /\ ret.resolved
    /\ ret.value = (IF ret.existed THEN 1 ELSE 0)
    /\ PostById(ret.id) = {}
    /\ ret.iso => \A r \in blog_images : r.post_id # ret.id
    /\ ret.failed \subseteq files

\* the delete of an existing post with a downloaded image whose file could
\* not be unlinked
C20_Witness ==
  /\ ret.op = "deleteBlogPost"
  /\ ret.failed # {}
  /\ ret.existed
  /\ ret.removed > 0
  /\ ret.resolved

----------------------------------------------------------------------------
(* Claims on the scrapers *)

\* the last stub of the page has a parseable date before dateFrom
OldestBefore(pageResult, dateFrom) ==
  /\ parseBlogDate(LastDate(pageResult.posts)) # InvalidDate
  /\ parseBlogDate(LastDate(pageResult.posts)) < NewDate(dateFrom)

\* the pages of the feed are in descending date order
Descending(feed) ==
  LET all == IF Len(feed.pages) = 1 THEN feed.pages[1].posts
             ELSE feed.pages[1].posts \o feed.pages[2].posts
  IN \A i, j \in DOMAIN all :
       (i < j /\ parseBlogDate(all[i].date) # InvalidDate
              /\ parseBlogDate(all[j].date) # InvalidDate)
         => parseBlogDate(all[i].date) >= parseBlogDate(all[j].date)

\* C13: with dateFrom set, the collector of blogScraper.js requests no page
\* after the first page whose last stub has a date before dateFrom, and the
\* stub list it returns has no stub with a parseable date before dateFrom
\* (on every feed, in descending date order or not).
C13_DateRangeTermination ==
  (scrape.pc # "idle" /\ scrape.site = "sakurazaka46" /\ scrape.dateFrom # NULL) =>
    /\ \A k \in 1..Len(scrape.pages) :
         OldestBefore(scrape.pages[k], scrape.dateFrom) =>
           k = Len(scrape.pages) /\ scrape.pc # "collect"
    /\ \A i \in 1..Len(scrape.allPosts) :
         \/ parseBlogDate(scrape.allPosts[i].date) = InvalidDate
         \/ parseBlogDate(scrape.allPosts[i].date) >= NewDate(scrape.dateFrom)

\* a descending feed of two pages with entries, collected with dateFrom: the
\* first page has a stub in the range and ends with one before dateFrom, and
\* the second page was not requested
C13_Witness ==
  /\ scrape.pc = "process"
  /\ scrape.site = "sakurazaka46"
  /\ scrape.dateFrom # NULL
  /\ Descending(scrape.feed)
  /\ Len(scrape.feed.pages) = 2
  /\ scrape.feed.pages[1].hasNext
  /\ Len(scrape.feed.pages[2].posts) > 0
  /\ Len(scrape.pages) = 1
  /\ OldestBefore(scrape.pages[1], scrape.dateFrom)
  /\ Len(scrape.allPosts) = 1
  /\ Len(scrape.pages[1].posts) = 2

\* C14: when dateFrom or dateTo is set, the stubs collected and the posts
\* processed by scrapeBlogPosts are the same for every value of limit.
C14_LimitIgnoredInRange ==
  (/\ scrape.pc = "process"
   /\ scrape.index = 0
   /\ scrape.site = "sakurazaka46"
   /\ (scrape.dateFrom # NULL \/ scrape.dateTo # NULL)) =>
    \A limit \in Limits :
      LET other == [scrape EXCEPT !.limit = limit, !.currentPage = 0,
                                  !.allPosts = <<>>]
      IN /\ collectAllPostUrls(other) = scrape.allPosts
         /\ PostsToProcess(other, collectAllPostUrls(other)) = scrape.postsToProcess

\* C15: with a numeric limit n and no date filter, no listing page is
\* requested once the accumulated stub count is >= n, and the scrape of
\* either scraper returns at most n posts.
C15_LimitStopsCollection ==
  (/\ scrape.pc # "idle"
   /\ ~scrape.limit.all
   /\ scrape.dateFrom = NULL /\ scrape.dateTo = NULL) =>
    /\ scrape.pc = "collect" => Len(scrape.allPosts) < scrape.limit.n
    /\ Len(scrape.allPosts) >= scrape.limit.n =>
         Len(scrape.allPosts) - Len(scrape.pages[Len(scrape.pages)].posts)
           < scrape.limit.n
    /\ Len(scrape.blogPosts) <= scrape.limit.n
    /\ ret.op \in {"scrapeBlogPosts", "scrapeKeyakiBlogPosts"} =>
         Len(ret.posts) <= scrape.limit.n

\* a scrape with limit n < the number of stubs of the first page, on a feed
\* with a second page: one page requested, n posts returned
C15_Witness ==
  /\ ret.op = "scrapeBlogPosts"
  /\ ~ret.error
  /\ ~scrape.limit.all
  /\ scrape.dateFrom = NULL /\ scrape.dateTo = NULL
  /\ Len(scrape.allPosts) > scrape.limit.n
  /\ Len(ret.posts) = scrape.limit.n
  /\ Len(scrape.pages) = 1
  /\ scrape.pages[1].hasNext
  /\ Len(scrape.feed.pages) = 2
  /\ Len(scrape.feed.pages[2].posts) > 0

\* C16: the pagination collector of either scraper always terminates: every
\* loop iteration requests one more page (currentPage counts them), at most
\* maxPages (100) pages are requested, and none after the first page without
\* stub entries, also on a feed that reports a next page forever.
C16_CollectorTerminates ==
  scrape.pc # "idle" =>
    /\ Len(scrape.pages) <= (IF scrape.site = "sakurazaka46"
                             THEN MAX_PAGES_SCRAPING ELSE KeyakiMaxPages)
    /\ scrape.pc = "collect" =>
         /\ Len(scrape.pages) = scrape.currentPage
         /\ scrape.currentPage < (IF scrape.site = "sakurazaka46"
                                  THEN MAX_PAGES_SCRAPING ELSE KeyakiMaxPages)
    /\ \A k \in 1..Len(scrape.pages) :
         Len(scrape.pages[k].posts) = 0 =>
           k = Len(scrape.pages) /\ scrape.pc # "collect"

\* a collector that stopped at the page cap on a feed without end
C16_Witness ==
  /\ scrape.pc = "process"
  /\ scrape.feed.forever
  /\ Len(scrape.pages) = MAX_PAGES_SCRAPING
  /\ scrape.pages[MAX_PAGES_SCRAPING].hasNext
  /\ Len(scrape.allPosts) = 2 * MAX_PAGES_SCRAPING

\* C21: a detail page that fails affects only its own post: the stubs after
\* it in postsToProcess are still processed before the scrape returns.
C21_DetailFailureIsLocal ==
  (ret.op \in {"scrapeBlogPosts", "scrapeKeyakiBlogPosts"} /\ ret.error) =>
    scrape.index + 1 >= Len(scrape.postsToProcess)

\* C22: in every scrape run of either scraper, each listing-page and
\* detail-page navigation is preceded by a completed smartDelay call issued
\* after the previous navigation.
C22_DelayBeforeEveryRequest ==
  scrape.pc # "idle" =>
    \A i \in 1..Len(scrape.gotos) : scrape.gotos[i].delayed

\* C23: no URL of the image list extracted from a detail page contains,
\* case-insensitively, a keyword of the exclusion set, whether it comes from
\* the DOM pass or from the regex pass over the content HTML.
C23_ExclusionFilter ==
  ret.op = "evaluate" =>
    \A i \in 1..Len(ret.details.images) : ~isExcluded(ret.details.images[i])

\* a step of the for loop that pushes a post
IsPush ==
  /\ scrape.pc = "process"
  /\ scrape'.pc = "process"
  /\ scrape'.index = scrape.index + 1
  /\ Len(scrape'.blogPosts) = Len(scrape.blogPosts) + 1
\* the stub of that step and the post it pushes
PushedStub == scrape.postsToProcess[scrape.index + 1]
PushedPost == scrape'.blogPosts[Len(scrape'.blogPosts)]
\* the title of a stub; the stubs of keyakiBlogScraper.js have none
StubTitle(post) == IF "title" \in DOMAIN post THEN post.title ELSE <<>>

\* C24 as stated: for every post produced by a scrape, in both scrapers, the
\* title is the detail page's title when that is non-empty and the stub's
\* title otherwise, and the date is the detail page's date when that is
\* non-empty and the stub's date otherwise.
C24_DetailFirst ==
  [][IsPush =>
       /\ PushedPost.title = OrElse(PushedStub.detail.title, StubTitle(PushedStub))
       /\ PushedPost.date = OrElse(PushedStub.detail.date, PushedStub.date)]_vars

\* C24: a post produced by scrapeBlogPosts has the detail page's title and
\* date when they are non-empty and the stub's otherwise; a post produced by
\* scrapeKeyakiBlogPosts has the detail page's title, and the stub's date
\* when that is non-empty and the detail page's date otherwise.
C24_TitleAndDate ==
  [][IsPush =>
       IF scrape.site = "sakurazaka46"
       THEN /\ PushedPost.title = OrElse(PushedStub.detail.title, PushedStub.title)
            /\ PushedPost.date = OrElse(PushedStub.detail.date, PushedStub.date)
       ELSE /\ PushedPost.title = PushedStub.detail.title
            /\ PushedPost.date = OrElse(PushedStub.date, PushedStub.detail.date)]_vars

\* a keyakizaka46 post whose listing and detail page give different dates,
\* produced with the date of the listing
C24_Witness ==
  /\ scrape.pc = "done"
  /\ scrape.site = "keyakizaka46"
  /\ Len(scrape.blogPosts) = 1
  /\ scrape.postsToProcess[1].date # <<>>
  /\ scrape.postsToProcess[1].detail.date # <<>>
  /\ scrape.postsToProcess[1].detail.date # scrape.postsToProcess[1].date
  /\ scrape.blogPosts[1].date = scrape.postsToProcess[1].date

\* C25: after every mutation of the image cache (ImageCache.set, or a
\* cleanupCache that removed entries) the cache file is a complete JSON
\* object equal to the in-memory cache, and at no point, a process
\* interruption during the write included, is the file partially written or
\* invalid.
C25_CacheFileComplete ==
  /\ cacheFile.exists => cacheFile.complete
  /\ (ret.op = "set" \/ (ret.op = "cleanupCache" /\ ret.cleaned > 0)) =>
       cacheFile = saveCache(cache, FALSE)

\* C26: when the process receives an interrupt signal while a scrape is
\* running, the browser launched by the scrape and the database handle are
\* both closed before the process exits.
C26_CleanupOnInterrupt ==
  (ret.op = "SIGINT" /\ process.pc = "down") =>
    /\ scrape.browser = "closed"
    /\ process.db = "closed"

\* C27: for every post the getters return (getBlogPost, getBlogPosts,
\* searchBlogPosts and getAllBlogPosts map their rows in the same way),
\* images and local_images pair up by position: local_images[i] is the
\* local path of the image row whose url is images[i], also when some image
\* rows of the post have a null local_path.
C27_PairedByPosition ==
  \A id \in { r.id : r \in blog_posts } :
    LET post == getBlogPost(id)
        rows == ImageRowsOf(id)
    IN \A i \in 1..Len(post.local_images) :
         /\ i <= Len(post.images)
         /\ \E k \in 1..Len(rows) :
              /\ rows[k].image_url = post.images[i]
              /\ rows[k].local_path = post.local_images[i]

\* the image URLs that the imageStmt of a post has still to insert
PendingImages(id) ==
  IF \E s \in imageStmts : s.post_id = id
  THEN (CHOOSE s \in imageStmts : s.post_id = id).rest
  ELSE <<>>

\* C28: saveBlogPost inserts image rows only after the post row was inserted
\* and with that row's id as post_id; it inserts one image row per entry of
\* post.images, with row ids increasing in array order, also when the image
\* INSERTs of several saves (saveBlogPosts) interleave.
C28_ImageRowsInOrder ==
  /\ \A r \in blog_images : r.post_id \in 1..seq.posts
  /\ \A s1, s2 \in imageStmts :
       s1.post_id \in 1..seq.posts /\ (s1.post_id = s2.post_id => s1 = s2)
  /\ \A id \in DOMAIN saved :
       LET rows == ImageRowsOf(id)
       IN [i \in 1..Len(rows) |-> rows[i].image_url] \o PendingImages(id)
            = saved[id]

\* two posts saved at the same time with two images each, all image rows
\* inserted, the INSERTs of the two posts taking turns
C28_Witness ==
  /\ imageStmts = {}
  /\ \E id1, id2 \in DOMAIN saved :
       /\ id1 # id2
       /\ Len(saved[id1]) = 2 /\ Len(saved[id2]) = 2
       /\ { r.id : r \in { x \in blog_images : x.post_id = id1 } } = {1, 3}
       /\ { r.id : r \in { x \in blog_images : x.post_id = id2 } } = {2, 4}

----------------------------------------------------------------------------
(* Claims on the rate limiting *)

\* C29: smartDelay(n) with n > 0 and n a multiple of BURST_LIMIT always
\* sleeps LONG_BREAK, whatever time has passed since the previous request;
\* for every other n it sleeps max(0, randomDelay - timeSinceLastRequest)
\* with randomDelay in [MIN_DELAY, MAX_DELAY]; it always returns and sets
\* lastRequestTime to the time of return.
C29_SmartDelay ==
  ret.op = "smartDelay" =>
    /\ IF ret.requestNumber > 0 /\ ret.requestNumber % BURST_LIMIT = 0
       THEN ret.slept = LONG_BREAK
       ELSE /\ ret.randomDelay \in MIN_DELAY..MAX_DELAY
            /\ ret.slept = IF ret.randomDelay > ret.timeSinceLastRequest
                           THEN ret.randomDelay - ret.timeSinceLastRequest
                           ELSE 0
    /\ rate.lastRequestTime = ret.returned
    /\ rate.now = ret.returned

\* a call with a multiple of BURST_LIMIT, made when more than LONG_BREAK has
\* passed since the last request, that slept LONG_BREAK
C29_Witness ==
  /\ ret.op = "smartDelay"
  /\ ret.requestNumber = 2 * BURST_LIMIT
  /\ rate.calls > 1
  /\ ret.timeSinceLastRequest > LONG_BREAK
  /\ ret.slept = LONG_BREAK

\* BURST_LIMIT of the scraper of a site
BurstLimitOf(site) ==
  IF site = "sakurazaka46" THEN BURST_LIMIT ELSE KeyakiBurstLimit

\* the smartDelay call before request k of the run slept LONG_BREAK
LongBreakBefore(k) ==
  /\ scrape.gotos[k].delayed
  /\ IsBurst(scrape.gotos[k].n, BurstLimitOf(scrape.site))

\* C30: within one scrape run, never more than BURST_LIMIT page requests are
\* made in a row without a LONG_BREAK pause between them, the listing-page
\* requests of the collection and the detail-page requests of the
\* extraction counted together.
C30_BurstLimit ==
  scrape.pc # "idle" =>
    \A i \in 1..(Len(scrape.gotos) - BurstLimitOf(scrape.site)) :
      \E k \in (i + 1)..(i + BurstLimitOf(scrape.site)) : LongBreakBefore(k)

\* C31: within one scrape run, at least MIN_DELAY ms elapse between the
\* returns of any two consecutive smartDelay calls (so consecutive page
\* requests start at least MIN_DELAY apart), on the burst path and on the
\* random-delay path alike.
C31_MinGap ==
  [][(ret'.op = "smartDelay" /\ rate.calls >= 1 /\ rate'.calls = rate.calls + 1)
       => rate'.lastRequestTime - rate.lastRequestTime >= MIN_DELAY]_vars

\* a second call on the random-delay path, made 500 ms after the first one
\* returned, that had to sleep, and a burst call behind it
C31_Witness ==
  /\ ret.op = "smartDelay"
  /\ rate.calls = MaxDelayCalls
  /\ ret.requestNumber = BURST_LIMIT
  /\ ret.timeSinceLastRequest = 0
  /\ ret.returned - StartTime = MIN_DELAY + LONG_BREAK + 500

----------------------------------------------------------------------------
(* Claims on the image list of a post *)

\* C32: the image list extracted from a detail page never contains the same
\* absolute URL twice: the DOM pass yields each image once and the regex
\* pass over the content HTML adds no URL that is already in the list, for
\* every mix of relative and absolute src values.
C32_NoDuplicateUrls ==
  ret.op = "evaluate" =>
    \A i, j \in 1..Len(ret.details.images) :
      ret.details.images[i] = ret.details.images[j] => i = j

----------------------------------------------------------------------------
(* Claims on redirects and on concurrent downloads *)

\* C33: a redirected download (301/302) is the same logical download: the
\* call made for the Location stores its file in the folder that the
\* original call's arguments designate and runs with the retry budget of
\* the original call.
C33_RedirectSameDownload ==
  \A k \in DOMAIN calls :
    (calls[k].parent # 0 /\ calls[calls[k].parent].mode = "owner") =>
      /\ calls[k].site = calls[calls[k].parent].site
      /\ calls[k].retryCount = calls[calls[k].parent].retryCount

----------------------------------------------------------------------------
(* Claims on the identity of a post *)

\* C34: when the saveBlogPost, updateBlogPostImages and deleteBlogPost calls
\* made so far have completed (with their image INSERTs), every blog_images
\* row has the post_id of an existing blog_posts row; re-saving a post whose
\* url exists leaves no image row that belongs to no post.
C34_ReferentialIntegrity ==
  Quiescent => \A r \in blog_images : PostById(r.post_id) # {}

\* C35: re-saving a post whose url already exists replaces the row in place:
\* saveBlogPost returns the id the post had before, so that an id handed
\* out earlier still designates the post.
C35_SameIdOnResave ==
  ret.op = "saveBlogPost" => \A old \in ret.replaced : old.id = ret.value

----------------------------------------------------------------------------
(* Claims on the settling of a download *)

\* C36: every downloadImageOptimized call eventually resolves or rejects,
\* for every pattern of server answers, a redirect to a URL that is being
\* downloaded included, and its URL then leaves the in-flight map. A call
\* settles only in a handler of a request or of a retry timer, so in every
\* state with a pending call a request or a timer is outstanding, and a
\* URL is in the in-flight map only while its call is pending.
C36_EveryCallSettles ==
  /\ (\E k \in DOMAIN calls : calls[k].state = "pending") =>
       (requests # {} \/ \E j \in DOMAIN calls : calls[j].timers > 0)
  /\ \A u \in DlUrls :
       downloadQueue[u] # 0 => calls[downloadQueue[u]].state = "pending"

\* the postId in the file name post_<postId>_<hash> of a relative path
PostIdOfPath(path) == path[4]

\* C37: the path a downloadImageOptimized call resolves with names the file
\* of the caller's own post (post_<postId>_<hash>), and when the call
\* resolves a cache entry exists for the caller's own (url, memberId,
\* postId), also when another call for the same url with a different postId
\* is in flight at the same time.
C37_OwnPostPath ==
  ret.op = "settled" =>
    \A k \in ret.ids :
      (calls[k].state = "resolved" /\ calls[k].parent = 0) =>
        /\ PostIdOfPath(calls[k].result) = calls[k].postId
        /\ cache[getCacheKey(calls[k].url, calls[k].postId)] # NULL

----------------------------------------------------------------------------
(* Claims on the stub list and on the browser of a scrape *)

\* C38: the stub list that the pagination collector returns contains each
\* post URL at most once over all pages fetched, also when the same post
\* appears on two different listing pages.
C38_UniqueStubUrls ==
  scrape.pc = "process" =>
    \A i, j \in 1..Len(scrape.allPosts) :
      scrape.allPosts[i].url = scrape.allPosts[j].url => i = j

\* C39: downloadImageOptimized resolves with a path (and records a cache
\* entry for it) only when the file at that path holds the complete body of
\* a 200 response for the image; a file left at the final path by an
\* interrupted or failed earlier attempt is never reported as a download.
C39_OnlyCompleteFiles ==
  ret.op = "settled" =>
    \A k \in ret.ids :
      calls[k].state = "resolved" =>
        /\ calls[k].result \in files
        /\ calls[k].result \notin partial

\* C40: every scrape invocation (scrapeBlogPosts, scrapeKeyakiBlogPosts)
\* closes the browser it launched before it returns, on every exit path:
\* normal completion, unknown member, no posts found, and an error raised
\* during collection or extraction; on the error path it returns the posts
\* gathered so far instead of throwing.
C40_BrowserClosed ==
  [][(scrape.pc # "done" /\ scrape'.pc = "done") =>
       /\ scrape'.browser = "closed"
       /\ ret'.op \in {"scrapeBlogPosts", "scrapeKeyakiBlogPosts"}
       /\ ret'.error => ret'.posts = scrape.blogPosts]_vars

\* an extraction that failed after it had gathered posts: the browser is
\* closed and the posts are returned
C40_Witness ==
  /\ ret.op = "scrapeKeyakiBlogPosts"
  /\ ret.error
  /\ Len(ret.posts) > 0
  /\ scrape.index < Len(scrape.postsToProcess)
  /\ scrape.browser = "closed"

====
